---- MODULE Spec2Model ----
(***************************************************************************)
(* A model of the simulation core of the roguelike: the actions            *)
(* (src/actions.py), the AI strategies (src/components/ai.py), the         *)
(* consumables and skills (src/components/consumable.py, skills.py), the   *)
(* projectiles (src/projectiles.py) and the scheduler (src/engine.py).     *)
(*                                                                         *)
(* Every method of the program is an operator from a world record to a     *)
(* result [w |-> the world it leaves, raised |-> whether it raised         *)
(* Impossible]; a method that draws a random number or iterates a set      *)
(* yields the set of its possible results.  The variables hold the         *)
(* program's objects; pre and last record the world before the most recent *)
(* operation and what that operation was.                                  *)
(***************************************************************************)
EXTENDS Integers, Sequences, FiniteSets, TLC

VARIABLES
    actors,       \* Actor objects: position, fighter, ai, inventory, skills
    items,        \* Item objects: position and parent
    game_map,     \* GameMap: walkable tiles, visible tiles, entity set, stairs
    engine,       \* Engine: game_state, last_enemy_turn_time, active_projectiles
    game_world,   \* GameWorld: current_floor
    message_log,  \* the messages appended by the most recent operation
    obs,          \* observations of the most recent operation (history)
    now,          \* the monotonic clock
    pre,          \* the world as it was when the most recent operation began
    last          \* the most recent operation and whether it raised Impossible

vars == <<actors, items, game_map, engine, game_world, message_log, obs, now, pre, last>>

----------------------------------------------------------------------------
(* Bounds of the model *)

MapW == 4
MapH == 3
MaxHp == 4
(* The arguments the items and skills of the model are constructed with. *)
Radius == 1
Turns == 2
ItemDamage == 2
ItemRange == 2
HealAmount == 2
(* The largest range of a projectile, and the most beams the player casts. *)
MaxRange == 2
MaxBeams == 1
(* The most projectiles spawned before the enemies take further turns. *)
MaxThrown == 2
(* The most frames of its animation a projectile is rendered with. *)
MaxRenders == 2
(* The deepest floor the player starts on. *)
MaxFloor == 3

----------------------------------------------------------------------------
(* Names *)

Player == "player"
Actors == {"player", "orc", "troll"}
Items == {"item1", "item2"}
None == "None"

Cells == (0..(MapW - 1)) \X (0..(MapH - 1))
Dirs8 == {d \in (-1..1) \X (-1..1) : d # <<0, 0>>}
Dirs9 == (-1..1) \X (-1..1)

Abs(n) == IF n < 0 THEN -n ELSE n
Max(a, b) == IF a >= b THEN a ELSE b
Min(a, b) == IF a <= b THEN a ELSE b
Sign(n) == IF n > 0 THEN 1 ELSE IF n < 0 THEN -1 ELSE 0

(* The world: the objects every method reads and writes. *)
W ==
    [actors |-> actors, items |-> items, game_map |-> game_map, engine |-> engine,
     game_world |-> game_world, message_log |-> message_log, obs |-> obs]

NoObs ==
    [hp_sets |-> <<>>, floors_generated |-> 0, updated |-> <<>>, purged |-> <<>>,
     decisions |-> <<>>, reverted |-> <<>>, printed |-> {}]

(* None stands for Python's None. *)

(* The world an operation starts from: the log and the observations record
   what this operation does. *)
Begin(w) == [w EXCEPT !.message_log = <<>>, !.obs = NoObs]

(* How a method ends: normally, by raising Impossible, or by raising another
   exception (error), each with the world as it is at that point. *)
Ok(w) == [w |-> w, raised |-> FALSE, error |-> None]
Impossible(w) == [w |-> w, raised |-> TRUE, error |-> None]
Crash(w, exception) == [w |-> w, raised |-> FALSE, error |-> exception]

add_message(w, text, n) ==
    [w EXCEPT !.message_log = Append(@, [text |-> text, n |-> n])]

----------------------------------------------------------------------------
(* GameMap *)

(* The floor plan: the walkable cells of a small room with a pillar. *)
Floor == {<<0, 0>>, <<1, 0>>, <<2, 0>>, <<0, 1>>, <<2, 1>>, <<1, 2>>, <<2, 2>>}

in_bounds(x, y) == 0 <= x /\ x < MapW /\ 0 <= y /\ y < MapH

walkable(w, x, y) == <<x, y>> \in w.game_map.walkable

visible(w, x, y) == <<x, y>> \in w.game_map.visible

(* The live actors of the map. *)
map_actors(w) == {a \in Actors : a \in w.game_map.entities}

get_actor_at_location(w, x, y) ==
    LET here == {a \in map_actors(w) : w.actors[a].x = x /\ w.actors[a].y = y}
    IN  IF here = {} THEN None ELSE CHOOSE a \in here : TRUE

(* Actors block movement; items do not. *)
get_blocking_entity_at_location(w, x, y) ==
    LET here == {a \in Actors : /\ a \in w.game_map.entities
                                /\ w.actors[a].x = x /\ w.actors[a].y = y}
    IN  IF here = {} THEN None ELSE CHOOSE a \in here : TRUE

----------------------------------------------------------------------------
(* Entity and Fighter *)

Entity_move(w, e, dx, dy) ==
    [w EXCEPT !.actors[e].x = @ + dx, !.actors[e].y = @ + dy]

NoAI == <<>>
NoBuff == -1

Fighter_power(w, e) == w.actors[e].base_power
Fighter_defense(w, e) == w.actors[e].base_defense

(* Death: the strategy is cleared and the actor leaves the map's entity set. *)
Fighter_die(w, e) ==
    [w EXCEPT !.actors[e].ai = NoAI, !.game_map.entities = @ \ {e}]

Fighter_set_hp(w, e, value) ==
    LET w1 == [w EXCEPT !.actors[e].hp = value,
                        !.obs.hp_sets = Append(@, [actor |-> e,
                                                   old |-> w.actors[e].hp,
                                                   new |-> value])]
    IN  IF value <= 0 /\ w.actors[e].ai # NoAI THEN Fighter_die(w1, e) ELSE w1

Fighter_take_damage(w, e, amount) == Fighter_set_hp(w, e, w.actors[e].hp - amount)


(* Fighter.heal: the hp recovered, 0 when hp is already full. *)
Fighter_heal_amount(w, e, amount) ==
    Min(w.actors[e].max_hp, w.actors[e].hp + amount) - w.actors[e].hp

Fighter_heal(w, e, amount) ==
    IF w.actors[e].hp = w.actors[e].max_hp
    THEN w
    ELSE Fighter_set_hp(w, e, w.actors[e].hp + Fighter_heal_amount(w, e, amount))

(* The boosts of the two potions (entity_factories.py). *)
StrengthBoost == 3
DefenseBoost == 2

(* One timed buff of e ages by a turn; one that runs out undoes its boost
   (the buff's on_expire), posts the buff's message and is deleted. *)
tick_strength(w, e) ==
    LET t == w.actors[e].buffs.strength
    IN  IF t = NoBuff THEN w
        ELSE IF t - 1 <= 0
        THEN add_message([w EXCEPT !.actors[e].buffs.strength = NoBuff,
                                   !.actors[e].base_power = @ - StrengthBoost],
                         "strength boost has worn off", 0)
        ELSE [w EXCEPT !.actors[e].buffs.strength = t - 1]

tick_defense(w, e) ==
    LET t == w.actors[e].buffs.defense
    IN  IF t = NoBuff THEN w
        ELSE IF t - 1 <= 0
        THEN add_message([w EXCEPT !.actors[e].buffs.defense = NoBuff,
                                   !.actors[e].base_defense = @ - DefenseBoost],
                         "defense boost has worn off", 0)
        ELSE [w EXCEPT !.actors[e].buffs.defense = t - 1]

update_temporary_buffs(w, e) == tick_defense(tick_strength(w, e), e)

----------------------------------------------------------------------------
(* Actions (src/actions.py) *)

WaitAction_perform(w, e) == Ok(w)

(* A MeleeAction that subtracts the attacker's power alone. *)
MeleeAction_perform_IgnoresDefense(w, e, dx, dy) ==
    LET target == get_actor_at_location(w, w.actors[e].x + dx, w.actors[e].y + dy)
    IN  IF target = None THEN Impossible(w)
        ELSE LET damage == Fighter_power(w, e)
                 w1 == update_temporary_buffs(w, e)
             IN  IF damage > 0
                 THEN Ok(Fighter_set_hp(add_message(w1, "attacks for hit points", damage),
                                        target, w1.actors[target].hp - damage))
                 ELSE Ok(add_message(w1, "attacks but does no damage", 0))

(* A melee that refreshes the attacker's timed buffs first and computes the
   damage from what is left. *)
MeleeAction_perform_RefreshFirst(w, e, dx, dy) ==
    LET target == get_actor_at_location(w, w.actors[e].x + dx, w.actors[e].y + dy)
    IN  IF target = None THEN Impossible(w)
        ELSE LET w1 == update_temporary_buffs(w, e)
                 damage == Fighter_power(w1, e) - Fighter_defense(w1, target)
             IN  IF damage > 0
                 THEN Ok(Fighter_set_hp(add_message(w1, "attacks for hit points", damage),
                                        target, w1.actors[target].hp - damage))
                 ELSE Ok(add_message(w1, "attacks but does no damage", 0))

MeleeAction_perform(w, e, dx, dy) ==
    LET target == get_actor_at_location(w, w.actors[e].x + dx, w.actors[e].y + dy)
    IN  IF target = None THEN Impossible(w)
        ELSE LET damage == Fighter_power(w, e) - Fighter_defense(w, target)
                 w1 == update_temporary_buffs(w, e)
             IN  IF damage > 0
                 THEN Ok(Fighter_set_hp(add_message(w1, "attacks for hit points", damage),
                                        target, w1.actors[target].hp - damage))
                 ELSE Ok(add_message(w1, "attacks but does no damage", 0))

(* A MovementAction that forgets the blocking-entity test. *)
MovementAction_perform_NoEntityTest(w, e, dx, dy) ==
    LET dest_x == w.actors[e].x + dx
        dest_y == w.actors[e].y + dy
    IN  IF ~in_bounds(dest_x, dest_y) THEN Impossible(w)
        ELSE IF ~walkable(w, dest_x, dest_y) THEN Impossible(w)
        ELSE Ok(Entity_move(w, e, dx, dy))

MovementAction_perform(w, e, dx, dy) ==
    LET dest_x == w.actors[e].x + dx
        dest_y == w.actors[e].y + dy
    IN  IF ~in_bounds(dest_x, dest_y) THEN Impossible(w)
        ELSE IF ~walkable(w, dest_x, dest_y) THEN Impossible(w)
        ELSE IF get_blocking_entity_at_location(w, dest_x, dest_y) # None THEN Impossible(w)
        ELSE Ok(Entity_move(w, e, dx, dy))

(* A bump that never attacks. *)
BumpAction_perform_AlwaysMoves(w, e, dx, dy) ==
    MovementAction_perform(w, e, dx, dy)

BumpAction_perform(w, e, dx, dy) ==
    IF get_actor_at_location(w, w.actors[e].x + dx, w.actors[e].y + dy) # None
    THEN MeleeAction_perform(w, e, dx, dy)
    ELSE MovementAction_perform(w, e, dx, dy)

----------------------------------------------------------------------------
(* AI strategies as values.  An actor's ai is a stack of strategies: the head
   is entity.ai, the tail is the head's previous_ai (and so on); the empty
   stack is None.  Of a timed strategy, turns is the turns_remaining it was
   created with and ticks counts its calls of perform (history). *)

HostileEnemy(path) ==
    [kind |-> "HostileEnemy", path |-> path, turns_remaining |-> 0, cooldown |-> 0,
     turns |-> 0, ticks |-> 0]
ConfusedEnemy(turns_remaining) ==
    [kind |-> "ConfusedEnemy", path |-> <<>>, turns_remaining |-> turns_remaining,
     cooldown |-> 0, turns |-> turns_remaining, ticks |-> 0]
ParalyzedEnemy(turns_remaining) ==
    [kind |-> "ParalyzedEnemy", path |-> <<>>, turns_remaining |-> turns_remaining,
     cooldown |-> 0, turns |-> turns_remaining, ticks |-> 0]
(* cooldown is projectile_cooldown (HostileEnemyWithProjectile, RangedEnemy)
   or cooldown (BossAI). *)
HostileEnemyWithProjectile(path, cooldown) ==
    [kind |-> "HostileEnemyWithProjectile", path |-> path, turns_remaining |-> 0,
     cooldown |-> cooldown, turns |-> 0, ticks |-> 0]
RangedEnemy(path, cooldown) ==
    [kind |-> "RangedEnemy", path |-> path, turns_remaining |-> 0,
     cooldown |-> cooldown, turns |-> 0, ticks |-> 0]
BossAI(path, cooldown) ==
    [kind |-> "BossAI", path |-> path, turns_remaining |-> 0,
     cooldown |-> cooldown, turns |-> 0, ticks |-> 0]
BlacksmithAI ==
    [kind |-> "BlacksmithAI", path |-> <<>>, turns_remaining |-> 0,
     cooldown |-> 0, turns |-> 0, ticks |-> 0]

----------------------------------------------------------------------------
(* Projectiles as values (Projectile.__init__ and its subclasses).  id tells
   the objects apart; updates counts the calls of update and struck lists the
   actors check_collision has hit, in order (history). *)

(* The symbols of the arrow scroll's animation; any other projectile has one. *)
Symbols(kind) ==
    IF kind = "DirectionalProjectile" THEN <<"arrow1", "arrow2", "arrow3">> ELSE <<"glyph">>

NewProjectile(w, kind, actor, range, damage, dx, dy) ==
    [id |-> w.engine.spawned + 1, kind |-> kind, actor |-> actor,
     symbol |-> Symbols(kind), char |-> Symbols(kind)[1],
     x |-> w.actors[actor].x, y |-> w.actors[actor].y,
     range |-> range, damage |-> damage, dx |-> dx, dy |-> dy,
     distance_travelled |-> 0, expanding_radius |-> 0, frame_index |-> 0,
     done |-> FALSE, can_hit_self |-> FALSE, hit_actors |-> {},
     updates |-> 0, struck |-> <<>>]

(* engine.active_projectiles.append(projectile) *)
append_projectile(w, p) ==
    [w EXCEPT !.engine.active_projectiles = Append(@, p), !.engine.spawned = @ + 1]

----------------------------------------------------------------------------
(* Projectile simulation (src/projectiles.py): a method of a projectile
   yields [w |-> the world, p |-> the projectile] as it leaves them. *)

(* A check_collision that does not ask whether the actor was hit before. *)
check_collision_HitsAgain(w, p, x, y) ==
    LET target == IF in_bounds(x, y) THEN get_actor_at_location(w, x, y) ELSE None
    IN  IF target = None \/ (target = p.actor /\ ~p.can_hit_self)
        THEN [w |-> w, p |-> p, hit |-> FALSE]
        ELSE LET damage_dealt == Max(0, p.damage - Fighter_defense(w, target))
                 p1 == [p EXCEPT !.hit_actors = @ \cup {target},
                                 !.struck = Append(@, target)]
             IN  IF damage_dealt > 0
                 THEN [w |-> Fighter_take_damage(
                                 add_message(w, "The projectile hits", damage_dealt),
                                 target, damage_dealt),
                       p |-> p1, hit |-> TRUE]
                 ELSE [w |-> add_message(w, "The projectile bounces off", 0), p |-> p1,
                       hit |-> TRUE]

(* A check_collision without the can_hit_self test. *)
check_collision_HitsOwner(w, p, x, y) ==
    LET target == IF in_bounds(x, y) THEN get_actor_at_location(w, x, y) ELSE None
    IN  IF target = None \/ target \in p.hit_actors
        THEN [w |-> w, p |-> p, hit |-> FALSE]
        ELSE LET damage_dealt == Max(0, p.damage - Fighter_defense(w, target))
                 p1 == [p EXCEPT !.hit_actors = @ \cup {target},
                                 !.struck = Append(@, target)]
             IN  IF damage_dealt > 0
                 THEN [w |-> Fighter_take_damage(
                                 add_message(w, "The projectile hits", damage_dealt),
                                 target, damage_dealt),
                       p |-> p1, hit |-> TRUE]
                 ELSE [w |-> add_message(w, "The projectile bounces off", 0), p |-> p1,
                       hit |-> TRUE]

check_collision(w, p, x, y) ==
    LET target == IF in_bounds(x, y) THEN get_actor_at_location(w, x, y) ELSE None
    IN  IF target = None \/ target \in p.hit_actors
        THEN [w |-> w, p |-> p, hit |-> FALSE]
        ELSE IF target = p.actor /\ ~p.can_hit_self
        THEN [w |-> w, p |-> p, hit |-> FALSE]
        ELSE LET damage_dealt == Max(0, p.damage - Fighter_defense(w, target))
                 p1 == [p EXCEPT !.hit_actors = @ \cup {target},
                                 !.struck = Append(@, target)]
             IN  IF damage_dealt > 0
                 THEN [w |-> Fighter_take_damage(
                                 add_message(w, "The projectile hits", damage_dealt),
                                 target, damage_dealt),
                       p |-> p1, hit |-> TRUE]
                 ELSE [w |-> add_message(w, "The projectile bounces off", 0), p |-> p1,
                       hit |-> TRUE]

(* A move that tests the range before it has counted the step. *)
Projectile_move_RangeOffByOne(w, p) ==
    LET p1 == [p EXCEPT !.x = @ + p.dx, !.y = @ + p.dy, !.distance_travelled = @ + 1]
    IN  IF in_bounds(p1.x, p1.y)
        THEN LET r == check_collision(w, p1, p1.x, p1.y)
             IN  IF ~walkable(r.w, p1.x, p1.y) THEN [r EXCEPT !.p.done = TRUE]
                 ELSE IF p.distance_travelled >= p1.range THEN [r EXCEPT !.p.done = TRUE]
                 ELSE r
        ELSE [w |-> w, p |-> [p1 EXCEPT !.done = TRUE]]

(* A straight-line projectile that flies on until it meets a wall. *)
Projectile_move_NoRange(w, p) ==
    LET p1 == [p EXCEPT !.x = @ + p.dx, !.y = @ + p.dy, !.distance_travelled = @ + 1]
    IN  IF in_bounds(p1.x, p1.y)
        THEN LET r == check_collision(w, p1, p1.x, p1.y)
             IN  IF ~walkable(r.w, p1.x, p1.y) THEN [r EXCEPT !.p.done = TRUE]
                 ELSE r
        ELSE [w |-> w, p |-> [p1 EXCEPT !.done = TRUE]]

(* A straight-line projectile that is done as soon as it hits somebody. *)
Projectile_move_StopsOnHit(w, p) ==
    LET p1 == [p EXCEPT !.x = @ + p.dx, !.y = @ + p.dy, !.distance_travelled = @ + 1]
    IN  IF in_bounds(p1.x, p1.y)
        THEN LET r == check_collision(w, p1, p1.x, p1.y)
             IN  IF r.hit THEN [r EXCEPT !.p.done = TRUE]
                 ELSE IF ~walkable(r.w, p1.x, p1.y) THEN [r EXCEPT !.p.done = TRUE]
                 ELSE IF p1.distance_travelled >= p1.range THEN [r EXCEPT !.p.done = TRUE]
                 ELSE r
        ELSE [w |-> w, p |-> [p1 EXCEPT !.done = TRUE]]

Projectile_move(w, p) ==
    LET p1 == [p EXCEPT !.x = @ + p.dx, !.y = @ + p.dy, !.distance_travelled = @ + 1]
    IN  IF in_bounds(p1.x, p1.y)
        THEN LET r == check_collision(w, p1, p1.x, p1.y)
             IN  IF ~walkable(r.w, p1.x, p1.y) THEN [r EXCEPT !.p.done = TRUE]
                 ELSE IF p1.distance_travelled >= p1.range THEN [r EXCEPT !.p.done = TRUE]
                 ELSE r
        ELSE [w |-> w, p |-> [p1 EXCEPT !.done = TRUE]]

(* check_collision on the cells of a list, in its order; a test that
   returns False has changed nothing. *)
RECURSIVE collide_all(_, _, _)
collide_all(w, p, cells) ==
    IF cells = <<>> THEN [w |-> w, p |-> p]
    ELSE LET r == check_collision(w, p, Head(cells)[1], Head(cells)[2])
         IN  IF r.hit THEN collide_all(r.w, r.p, Tail(cells))
             ELSE collide_all(w, p, Tail(cells))

(* for d in range(-n, n + 1) *)
Range(n) == [k \in 1..(2 * n + 1) |-> k - n - 1]

(* The cells of the ring of a radius round (cx, cy): dx outermost, dy inner. *)
RingCells(cx, cy, radius) ==
    LET side == 2 * radius + 1
        all == [k \in 1..(side * side) |->
                  <<((k - 1) \div side) - radius, ((k - 1) % side) - radius>>]
    IN  SelectSeq([k \in 1..(side * side) |-> <<cx + all[k][1], cy + all[k][2], all[k][1], all[k][2]>>],
                  LAMBDA c : Abs(c[3]) = radius \/ Abs(c[4]) = radius)

(* A shockwave that is done as soon as its radius is its range. *)
ShockwaveProjectile_update_DoneAtRange(w, p) ==
    LET p1 == [p EXCEPT !.expanding_radius = @ + 1]
    IN  IF p1.expanding_radius >= p1.range THEN [w |-> w, p |-> [p1 EXCEPT !.done = TRUE]]
        ELSE collide_all(w, p1,
                 RingCells(w.actors[p.actor].x, w.actors[p.actor].y, p1.expanding_radius))

(* A shockwave whose ring stays around the cell it was spawned on. *)
ShockwaveProjectile_update_AroundSpawn(w, p) ==
    LET p1 == [p EXCEPT !.expanding_radius = @ + 1]
    IN  IF p1.expanding_radius > p1.range THEN [w |-> w, p |-> [p1 EXCEPT !.done = TRUE]]
        ELSE collide_all(w, p1, RingCells(p.x, p.y, p1.expanding_radius))

ShockwaveProjectile_update(w, p) ==
    LET p1 == [p EXCEPT !.expanding_radius = @ + 1]
    IN  IF p1.expanding_radius > p1.range THEN [w |-> w, p |-> [p1 EXCEPT !.done = TRUE]]
        ELSE collide_all(w, p1,
                 RingCells(w.actors[p.actor].x, w.actors[p.actor].y, p1.expanding_radius))

(* The cells of the plus: the horizontal arm, then the vertical arm. *)
CrossCells(cx, cy, reach) ==
    [k \in 1..(2 * reach + 1) |-> <<cx + Range(reach)[k], cy>>]
      \o [k \in 1..(2 * reach + 1) |-> <<cx, cy + Range(reach)[k]>>]

(* A plus that tests the four tips of its arms only. *)
CrossProjectile_update_TipsOnly(w, p) ==
    LET p1 == [p EXCEPT !.distance_travelled = @ + 1]
        cx == w.actors[p.actor].x
        cy == w.actors[p.actor].y
        reach == p1.distance_travelled
    IN  IF p1.distance_travelled > p1.range THEN [w |-> w, p |-> [p1 EXCEPT !.done = TRUE]]
        ELSE collide_all(w, p1,
                 <<<<cx - reach, cy>>, <<cx + reach, cy>>,
                   <<cx, cy - reach>>, <<cx, cy + reach>>>>)

CrossProjectile_update(w, p) ==
    LET p1 == [p EXCEPT !.distance_travelled = @ + 1]
    IN  IF p1.distance_travelled > p1.range THEN [w |-> w, p |-> [p1 EXCEPT !.done = TRUE]]
        ELSE collide_all(w, p1,
                 CrossCells(w.actors[p.actor].x, w.actors[p.actor].y, p1.distance_travelled))

(* The cells of the X: for each d, (d,d), (d,-d), (-d,d), (-d,-d). *)
DiagonalCells(cx, cy, reach) ==
    [k \in 1..(4 * (2 * reach + 1)) |->
        LET d == Range(reach)[((k - 1) \div 4) + 1]
            j == (k - 1) % 4
        IN  CASE j = 0 -> <<cx + d, cy + d>>
              [] j = 1 -> <<cx + d, cy - d>>
              [] j = 2 -> <<cx - d, cy + d>>
              [] OTHER -> <<cx - d, cy - d>>]

DiagonalProjectile_update(w, p) ==
    LET p1 == [p EXCEPT !.distance_travelled = @ + 1]
    IN  IF p1.distance_travelled > p1.range THEN [w |-> w, p |-> [p1 EXCEPT !.done = TRUE]]
        ELSE collide_all(w, p1,
                 DiagonalCells(w.actors[p.actor].x, w.actors[p.actor].y, p1.distance_travelled))

(* projectile.update(), whatever its class. *)
Projectile_update(w, p) ==
    LET p0 == [p EXCEPT !.updates = @ + 1]
    IN  IF p0.done THEN [w |-> w, p |-> p0]
        ELSE CASE p0.kind \in {"Projectile", "DirectionalProjectile"} -> Projectile_move(w, p0)
               [] p0.kind = "ShockwaveProjectile" -> ShockwaveProjectile_update(w, p0)
               [] p0.kind = "CrossProjectile" -> CrossProjectile_update(w, p0)
               [] p0.kind = "DiagonalProjectile" -> DiagonalProjectile_update(w, p0)

----------------------------------------------------------------------------
(* Engine.update_projectiles (src/engine.py) *)

PositionOf(list, id) == CHOOSE k \in 1..Len(list) : list[k].id = id
Without(list, id) == SelectSeq(list, LAMBDA q : q.id # id)

(* One turn of the loop: update the projectile, remove it if it is done. *)
update_one(w, id) ==
    LET list == w.engine.active_projectiles
        k == PositionOf(list, id)
        r == Projectile_update(w, list[k])
        seen == [r.w EXCEPT !.obs.updated = Append(@, id)]
    IN  IF r.p.done
        THEN [seen EXCEPT !.engine.active_projectiles = Without(list, id),
                          !.obs.purged = Append(@, r.p)]
        ELSE [seen EXCEPT !.engine.active_projectiles[k] = r.p]

(* The loop over list(self.active_projectiles), a copy taken at the start. *)
RECURSIVE update_copy(_, _)
update_copy(w, ids) ==
    IF ids = <<>> THEN w ELSE update_copy(update_one(w, Head(ids)), Tail(ids))

(* The loop over the live list by position: a removal moves the next
   projectile into the position just visited, and the loop steps over it. *)
RECURSIVE update_live(_, _)
update_live(w, k) ==
    IF k > Len(w.engine.active_projectiles) THEN w
    ELSE update_live(update_one(w, w.engine.active_projectiles[k].id), k + 1)

Engine_update_projectiles_LiveList(w) == update_live(w, 1)

Engine_update_projectiles(w) ==
    update_copy(w, [k \in 1..Len(w.engine.active_projectiles) |->
                       w.engine.active_projectiles[k].id])

----------------------------------------------------------------------------
(* Rendering (src/projectiles.py, Engine.render): render yields the
   projectile as it leaves it and the set of <<x, y, char>> it prints. *)

print_cells(w, p, cells) ==
    {<<c[1], c[2], p.char>> : c \in {d \in cells : in_bounds(d[1], d[2]) /\ visible(w, d[1], d[2])}}

Projectile_render(w, p) ==
    [p |-> p, printed |-> IF p.done THEN {} ELSE print_cells(w, p, {<<p.x, p.y>>})]

(* The animation: the next symbol is taken and the frame index advances. *)
DirectionalProjectile_render(w, p) ==
    IF p.done THEN [p |-> p, printed |-> {}]
    ELSE Projectile_render(w, [p EXCEPT !.char = p.symbol[(p.frame_index % Len(p.symbol)) + 1],
                                        !.frame_index = @ + 1])

(* The ring, the plus and the X around the owner. *)
Blast_render(w, p) ==
    LET cx == w.actors[p.actor].x
        cy == w.actors[p.actor].y
        cells == CASE p.kind = "ShockwaveProjectile" -> RingCells(cx, cy, p.expanding_radius)
                   [] p.kind = "CrossProjectile" -> CrossCells(cx, cy, p.distance_travelled)
                   [] OTHER -> DiagonalCells(cx, cy, p.distance_travelled)
    IN  [p |-> p, printed |-> IF p.done THEN {} ELSE print_cells(w, p, {cells[k] : k \in 1..Len(cells)})]

render(w, p) ==
    CASE p.kind = "Projectile" -> Projectile_render(w, p)
      [] p.kind = "DirectionalProjectile" -> DirectionalProjectile_render(w, p)
      [] OTHER -> Blast_render(w, p)

(* Engine.render: for projectile in self.active_projectiles: projectile.render(console) *)
Engine_render(w) ==
    LET list == w.engine.active_projectiles
    IN  [w EXCEPT !.engine.active_projectiles = [k \in 1..Len(list) |-> render(w, list[k]).p],
                  !.obs.printed = UNION {render(w, list[k]).printed : k \in 1..Len(list)}]

----------------------------------------------------------------------------
(* Consumables (src/components/consumable.py) and skills (skills.py) *)

(* Entity.distance, squared. *)
distance2(w, a, x, y) ==
    (x - w.actors[a].x) * (x - w.actors[a].x) + (y - w.actors[a].y) * (y - w.actors[a].y)

(* list.remove: the list without its first element satisfying Is. *)
RECURSIVE RemoveFirst(_, _)
RemoveFirst(seq, entry) ==
    IF seq = <<>> THEN <<>>
    ELSE IF Head(seq) = entry THEN Tail(seq)
    ELSE <<Head(seq)>> \o RemoveFirst(Tail(seq), entry)

InSeq(seq, entry) == \E k \in 1..Len(seq) : seq[k] = entry

(* An inventory entry: the Item itself, as PickupAction stores it. *)
Entry(item) == [item |-> item, tuple |-> FALSE, qty |-> 1]

(* A consume that leaves the item in the inventory. *)
Consumable_consume_Keeps(w, item) == Ok(w)

Consumable_consume(w, item) ==
    LET holder == w.items[item].parent
    IN  IF holder \notin Actors THEN Ok(w)
        ELSE IF ~InSeq(w.actors[holder].inventory, Entry(item)) THEN Crash(w, "ValueError")
        ELSE Ok([w EXCEPT !.actors[holder].inventory = RemoveFirst(@, Entry(item))])

(* A variant that lets the new effect take the place of the one in force,
   which is dropped. *)
ConfusionConsumable_activate_Replaces(w, consumer, item, tx, ty) ==
    LET target == get_actor_at_location(w, tx, ty)
    IN  IF ~visible(w, tx, ty) THEN Impossible(w)
        ELSE IF target = None THEN Impossible(w)
        ELSE IF target = consumer THEN Impossible(w)
        ELSE Consumable_consume(
                 [add_message(w, "starts to stumble around", 0)
                    EXCEPT !.actors[target].ai =
                       <<ConfusedEnemy(w.items[item].turns)>>
                          \o (IF @ # <<>> /\ @[1].kind \in {"ConfusedEnemy", "ParalyzedEnemy"}
                              THEN Tail(@) ELSE @)],
                 item)

ConfusionConsumable_activate(w, consumer, item, tx, ty) ==
    LET target == get_actor_at_location(w, tx, ty)
    IN  IF ~visible(w, tx, ty) THEN Impossible(w)
        ELSE IF target = None THEN Impossible(w)
        ELSE IF target = consumer THEN Impossible(w)
        ELSE Consumable_consume(
                 [add_message(w, "starts to stumble around", 0)
                    EXCEPT !.actors[target].ai = <<ConfusedEnemy(w.items[item].turns)>> \o @],
                 item)

(* The actors a loop over game_map.actors visits, in one fixed order. *)
RECURSIVE SetToSeq(_)
SetToSeq(S) ==
    IF S = {} THEN <<>>
    ELSE LET a == CHOOSE a \in S : TRUE IN <<a>> \o SetToSeq(S \ {a})

RECURSIVE burn(_, _, _)
burn(w, targets, damage) ==
    IF targets = <<>> THEN w
    ELSE burn(Fighter_take_damage(add_message(w, "engulfed in a fiery explosion", damage),
                                  Head(targets), damage),
              Tail(targets), damage)

InRadius(w, tx, ty, radius) ==
    {a \in map_actors(w) : distance2(w, a, tx, ty) <= radius * radius}

FireballDamageConsumable_activate(w, consumer, item, tx, ty) ==
    LET targets == InRadius(w, tx, ty, w.items[item].radius)
    IN  IF ~visible(w, tx, ty) THEN Impossible(w)
        ELSE IF targets = {} THEN Impossible(w)
        ELSE Consumable_consume(burn(w, SetToSeq(targets), w.items[item].damage), item)

(* A potion that is used up before it finds the health full. *)
HealingConsumable_activate_ConsumesFirst(w, consumer, item) ==
    LET r == Consumable_consume(w, item)
    IN  IF Fighter_heal_amount(w, consumer, w.items[item].amount) > 0
        THEN [r EXCEPT !.w = add_message(Fighter_heal(r.w, consumer, w.items[item].amount),
                                         "recover HP", 0)]
        ELSE Impossible(r.w)

HealingConsumable_activate(w, consumer, item) ==
    LET amount_recovered == Fighter_heal_amount(w, consumer, w.items[item].amount)
    IN  IF amount_recovered > 0
        THEN Consumable_consume(
                 add_message(Fighter_heal(w, consumer, w.items[item].amount),
                             "recover HP", amount_recovered),
                 item)
        ELSE Impossible(w)

(* The actors the lightning can strike: visible, not the consumer, nearer
   than maximum_range + 1 and no farther than any other such actor.  Which of
   several equally near actors is struck depends on the iteration order. *)
LightningTargets(w, consumer, maximum_range) ==
    LET near == {a \in map_actors(w) \ {consumer} :
                    /\ visible(w, w.actors[a].x, w.actors[a].y)
                    /\ distance2(w, consumer, w.actors[a].x, w.actors[a].y)
                         < (maximum_range + 1) * (maximum_range + 1)}
    IN  {a \in near : \A b \in near :
            distance2(w, consumer, w.actors[a].x, w.actors[a].y)
              <= distance2(w, consumer, w.actors[b].x, w.actors[b].y)}

LightningDamageConsumable_activate(w, consumer, item) ==
    LET targets == LightningTargets(w, consumer, w.items[item].range)
    IN  IF targets = {} THEN {Impossible(w)}
        ELSE {Consumable_consume(
                  Fighter_take_damage(add_message(w, "A lighting bolt strikes", w.items[item].damage),
                                      t, w.items[item].damage),
                  item) : t \in targets}

StrengthPotionConsumable_activate(w, consumer, item) ==
    IF w.actors[consumer].buffs.strength # NoBuff THEN Impossible(w)
    ELSE Consumable_consume(
             add_message([w EXCEPT !.actors[consumer].buffs.strength = w.items[item].turns,
                                   !.actors[consumer].base_power = @ + StrengthBoost],
                         "Power surges through your veins", 0),
             item)

DefensePotionConsumable_activate(w, consumer, item) ==
    IF w.actors[consumer].buffs.defense # NoBuff THEN Impossible(w)
    ELSE Consumable_consume(
             add_message([w EXCEPT !.actors[consumer].buffs.defense = w.items[item].turns,
                                   !.actors[consumer].base_defense = @ + DefenseBoost],
                         "A protective aura surrounds you", 0),
             item)

RECURSIVE freeze(_, _, _)
freeze(w, targets, turns) ==
    IF targets = <<>> THEN w
    ELSE freeze([add_message(w, "is frozen solid", 0)
                   EXCEPT !.actors[Head(targets)].ai = <<ParalyzedEnemy(turns)>> \o @],
                Tail(targets), turns)

IceBombConsumable_activate(w, consumer, item, tx, ty) ==
    LET targets == InRadius(w, tx, ty, w.items[item].radius) \ {consumer}
    IN  IF ~visible(w, tx, ty) THEN Impossible(w)
        ELSE IF targets = {} THEN Impossible(w)
        ELSE Consumable_consume(freeze(w, SetToSeq(targets), w.items[item].turns), item)

DirectionalProjectileConsumable_activate(w, consumer, item) ==
    Consumable_consume(
        add_message(
            append_projectile(w,
                NewProjectile(w, "DirectionalProjectile", consumer, w.items[item].range,
                              w.items[item].damage,
                              w.actors[consumer].facing_direction[1],
                              w.actors[consumer].facing_direction[2])),
            "You fire", 0),
        item)

(* ShockwaveConsumable, CrossBlastConsumable and DiagonalBlastConsumable. *)
BlastConsumable_activate(w, consumer, item, kind) ==
    Consumable_consume(
        add_message(
            append_projectile(w,
                NewProjectile(w, kind, consumer, w.items[item].range, w.items[item].damage, 0, 0)),
            "blast erupts", 0),
        item)

(* Skills *)
NoSkill == [name |-> "None", damage |-> 0, range |-> 0, radius |-> 0, amount |-> 0]
HealSkill(amount) == [NoSkill EXCEPT !.name = "Lesser Heal", !.amount = amount]
BeamSkill(damage, range) == [NoSkill EXCEPT !.name = "Beam", !.damage = damage, !.range = range]
FireballSkill(damage, radius) ==
    [NoSkill EXCEPT !.name = "Fireball", !.damage = damage, !.radius = radius]
LightningSkill(damage, maximum_range) ==
    [NoSkill EXCEPT !.name = "Lightning Bolt", !.damage = damage, !.range = maximum_range]

HealSkill_activate(w, consumer, skill) ==
    LET amount_recovered == Fighter_heal_amount(w, consumer, skill.amount)
    IN  IF amount_recovered > 0
        THEN Ok(add_message(Fighter_heal(w, consumer, skill.amount), "recover HP", amount_recovered))
        ELSE Impossible(w)

BeamSkill_activate(w, consumer, skill, tx, ty) ==
    LET dx == tx - w.actors[consumer].x
        dy == ty - w.actors[consumer].y
        dir == IF dx # 0 \/ dy # 0 THEN <<Sign(dx), Sign(dy)>>
               ELSE w.actors[consumer].facing_direction
    IN  IF ~visible(w, tx, ty) THEN Impossible(w)
        ELSE Ok(add_message(
                    append_projectile(w,
                        NewProjectile(w, "Projectile", consumer, skill.range, skill.damage,
                                      dir[1], dir[2])),
                    "You fire a beam", 0))

FireballSkill_activate(w, consumer, skill, tx, ty) ==
    LET targets == InRadius(w, tx, ty, skill.radius)
    IN  IF ~visible(w, tx, ty) THEN Impossible(w)
        ELSE IF targets = {} THEN Impossible(w)
        ELSE Ok(burn(w, SetToSeq(targets), skill.damage))

LightningSkill_activate(w, consumer, skill) ==
    LET targets == LightningTargets(w, consumer, skill.range)
    IN  IF targets = {} THEN {Impossible(w)}
        ELSE {Ok(Fighter_take_damage(add_message(w, "A lighting bolt strikes", skill.damage),
                                     t, skill.damage)) : t \in targets}

Skill_activate(w, consumer, skill, tx, ty) ==
    CASE skill.name = "Lesser Heal" -> {HealSkill_activate(w, consumer, skill)}
      [] skill.name = "Beam" -> {BeamSkill_activate(w, consumer, skill, tx, ty)}
      [] skill.name = "Fireball" -> {FireballSkill_activate(w, consumer, skill, tx, ty)}
      [] skill.name = "Lightning Bolt" -> LightningSkill_activate(w, consumer, skill)

Consumable_activate(w, consumer, item, tx, ty) ==
    LET kind == w.items[item].kind
    IN  CASE kind = "confusion" -> {ConfusionConsumable_activate(w, consumer, item, tx, ty)}
          [] kind = "fireball" -> {FireballDamageConsumable_activate(w, consumer, item, tx, ty)}
          [] kind = "healing" -> {HealingConsumable_activate(w, consumer, item)}
          [] kind = "lightning" -> LightningDamageConsumable_activate(w, consumer, item)
          [] kind = "strength" -> {StrengthPotionConsumable_activate(w, consumer, item)}
          [] kind = "defense" -> {DefensePotionConsumable_activate(w, consumer, item)}
          [] kind = "ice_bomb" -> {IceBombConsumable_activate(w, consumer, item, tx, ty)}
          [] kind = "arrow" -> {DirectionalProjectileConsumable_activate(w, consumer, item)}
          [] kind = "shockwave" -> {BlastConsumable_activate(w, consumer, item, "ShockwaveProjectile")}
          [] kind = "cross_blast" -> {BlastConsumable_activate(w, consumer, item, "CrossProjectile")}
          [] kind = "diagonal_blast" -> {BlastConsumable_activate(w, consumer, item, "DiagonalProjectile")}

(* ItemAction.perform: the item's consumable if there is an item with one,
   else the skill if there is one, else nothing. *)
ItemAction_perform(w, e, item, tx, ty, skill) ==
    IF item # None /\ w.items[item].kind # "equippable"
    THEN Consumable_activate(w, e, item, tx, ty)
    ELSE IF skill # NoSkill THEN Skill_activate(w, e, skill, tx, ty)
    ELSE {Ok(w)}

(* PickupAction.perform: the first item of the map found on the actor's tile
   decides; which one that is when several lie there depends on the
   iteration order. *)
map_items(w) == {i \in Items : i \in w.game_map.entities}

(* A pickup that refuses only an inventory holding more than capacity. *)
PickupAction_perform_OneTooMany(w, e) ==
    LET here == {i \in map_items(w) :
                    w.items[i].x = w.actors[e].x /\ w.items[i].y = w.actors[e].y}
    IN  IF here = {} THEN {Impossible(w)}
        ELSE IF Len(w.actors[e].inventory) > w.actors[e].capacity THEN {Impossible(w)}
        ELSE {Ok(add_message([w EXCEPT !.game_map.entities = @ \ {i},
                                       !.items[i].parent = e,
                                       !.actors[e].inventory = Append(@, Entry(i))],
                             "You picked up", 0)) : i \in here}

PickupAction_perform(w, e) ==
    LET here == {i \in map_items(w) :
                    w.items[i].x = w.actors[e].x /\ w.items[i].y = w.actors[e].y}
    IN  IF here = {} THEN {Impossible(w)}
        ELSE IF Len(w.actors[e].inventory) >= w.actors[e].capacity THEN {Impossible(w)}
        ELSE {Ok(add_message([w EXCEPT !.game_map.entities = @ \ {i},
                                       !.items[i].parent = e,
                                       !.actors[e].inventory = Append(@, Entry(i))],
                             "You picked up", 0)) : i \in here}

(* Inventory.remove on the entries of an inventory, from the front: what is
   left of them, what remove returns, and the exception if it raises one.
   Every entry is unpacked as an (Item, qty) tuple, which raises TypeError on
   an entry that is the Item itself; the first tuple of the item loses
   quantity of its qty, or is deleted when it holds no more than that. *)
RECURSIVE Inventory_remove(_, _, _)
Inventory_remove(entries, item, quantity) ==
    IF entries = <<>> THEN [items |-> <<>>, result |-> FALSE, error |-> None]
    ELSE IF ~Head(entries).tuple
    THEN [items |-> entries, result |-> FALSE, error |-> "TypeError"]
    ELSE IF Head(entries).item = item
    THEN [items |-> IF Head(entries).qty > quantity
                    THEN <<[Head(entries) EXCEPT !.qty = @ - quantity]>> \o Tail(entries)
                    ELSE Tail(entries),
          result |-> TRUE, error |-> None]
    ELSE LET r == Inventory_remove(Tail(entries), item, quantity)
         IN  IF r.error # None THEN [r EXCEPT !.items = entries]
             ELSE [r EXCEPT !.items = <<Head(entries)>> \o @]

(* Entity.place: the entity is put at (x, y) of the map and joins the map's
   entities; the map is its parent from then on. *)
Entity_place(w, i, x, y) ==
    [w EXCEPT !.items[i].x = x, !.items[i].y = y, !.items[i].parent = "gamemap",
              !.game_map.entities = @ \cup {i}]

(* Inventory.drop of the inventory of actor e: when remove took something
   out, the item is placed on the map at the feet of e. *)
Inventory_drop(w, e, item, quantity) ==
    LET r == Inventory_remove(w.actors[e].inventory, item, quantity)
    IN  IF r.error # None THEN Crash(w, r.error)
        ELSE IF r.result
        THEN Ok(add_message(
                    Entity_place([w EXCEPT !.actors[e].inventory = r.items], item,
                                 w.actors[e].x, w.actors[e].y),
                    "You dropped", quantity))
        ELSE Ok(w)

(* GameWorld.generate_floor: the next floor, a new map holding the player
   alone at its first room, nothing of it seen yet. *)
GameWorld_generate_floor(w) ==
    [w EXCEPT !.game_world.current_floor = @ + 1,
              !.game_map = [walkable |-> Floor, visible |-> {}, entities |-> {Player},
                            downstairs_location |-> <<2, 2>>],
              !.actors[Player].x = 0,
              !.actors[Player].y = 0,
              !.obs.floors_generated = @ + 1]

has_skill(w, name) ==
    \E k \in 1..Len(w.actors[Player].skills) : w.actors[Player].skills[k].name = name

(* An add_skill that does not look for the name. *)
SkillTree_add_skill_Unguarded(w, skill) ==
    add_message([w EXCEPT !.actors[Player].skills = Append(@, skill)],
                "You learned a new skill", 0)

SkillTree_add_skill(w, skill) ==
    IF has_skill(w, skill.name) THEN w
    ELSE add_message([w EXCEPT !.actors[Player].skills = Append(@, skill)],
                     "You learned a new skill", 0)

(* Stairs that teach Beam on every floor. *)
TakeStairsAction_perform_BeamEverywhere(w, e) ==
    IF <<w.actors[e].x, w.actors[e].y>> = w.game_map.downstairs_location
    THEN LET w1 == add_message(GameWorld_generate_floor(w), "You descend the staircase", 0)
         IN  Ok(add_message(SkillTree_add_skill(w1, BeamSkill(10, 8)), "You learned Beam", 0))
    ELSE Impossible(w)

TakeStairsAction_perform(w, e) ==
    IF <<w.actors[e].x, w.actors[e].y>> = w.game_map.downstairs_location
    THEN LET w1 == add_message(GameWorld_generate_floor(w), "You descend the staircase", 0)
             w2 == IF w1.game_world.current_floor = 2
                   THEN add_message(SkillTree_add_skill(w1, BeamSkill(10, 8)),
                                    "You learned Beam", 0)
                   ELSE w1
             w3 == IF w2.game_world.current_floor = 3
                   THEN add_message(SkillTree_add_skill(w2, HealSkill(20)),
                                    "You learned Lesser Heal", 0)
                   ELSE w2
         IN  Ok(w3)
    ELSE Impossible(w)

(* A throw along the direction of the action. *)
ThrowProjectileAction_perform_AlongAction(w, e, dx, dy) ==
    Ok(add_message(
           append_projectile(w,
               NewProjectile(w, "Projectile", Player, 5, Fighter_power(w, e) \div 2, dx, dy)),
           "You throw a projectile", 0))

(* ThrowProjectileAction.perform: a projectile of the player, aimed along the
   player's facing direction. *)
ThrowProjectileAction_perform(w, e, dx, dy) ==
    Ok(add_message(
           append_projectile(w,
               NewProjectile(w, "Projectile", Player, 5, Fighter_power(w, e) \div 2,
                             w.actors[Player].facing_direction[1],
                             w.actors[Player].facing_direction[2])),
           "You throw a projectile", 0))

----------------------------------------------------------------------------
(* AI strategies (src/components/ai.py): perform yields the set of its
   possible results, one for every random draw and every least-cost path. *)

(* A cost array with a zero on every tile a blocking entity stands on. *)
path_cost_EntitiesBlock(w, c) ==
    IF c \notin w.game_map.walkable THEN 0
    ELSE IF \E a \in Actors : /\ a \in w.game_map.entities
                              /\ <<w.actors[a].x, w.actors[a].y>> = c
         THEN 0 ELSE 1

(* The cost array of get_path_to: 1 on a walkable tile, 0 elsewhere, and 10
   more on every walkable tile a blocking entity stands on. *)
path_cost(w, c) ==
    IF c \notin w.game_map.walkable THEN 0
    ELSE 1 + 10 * Cardinality({a \in Actors : /\ a \in w.game_map.entities
                                              /\ <<w.actors[a].x, w.actors[a].y>> = c})

Neighbours(c) ==
    {<<c[1] + d[1], c[2] + d[2]>> : d \in Dirs8}

(* SimpleGraph(cost, cardinal=2, diagonal=3): the price of the step c -> n. *)
step_cost(w, c, n) ==
    path_cost(w, n) * (IF n[1] # c[1] /\ n[2] # c[2] THEN 3 ELSE 2)

(* The cheapest routes to dest of at most rounds steps, as the set of
   <<cell, cost>> of the cells that have one. *)
RECURSIVE route_cost(_, _, _)
route_cost(w, dest, rounds) ==
    IF rounds = 0 THEN {<<dest, 0>>}
    ELSE LET d == route_cost(w, dest, rounds - 1)
             via(c) == {step_cost(w, c, p[1]) + p[2] :
                          p \in {q \in d : q[1] \in Neighbours(c) /\ path_cost(w, q[1]) > 0}}
         IN  {<<dest, 0>>}
               \cup {<<c, CHOOSE v \in via(c) : \A u \in via(c) : v <= u>> :
                       c \in {b \in w.game_map.walkable \ {dest} : via(b) # {}}}

(* The cheapest routes from c to dest, without c itself. *)
RECURSIVE routes(_, _, _, _)
routes(w, d, c, dest) ==
    IF c = dest THEN {<<>>}
    ELSE UNION {{<<p[1]>> \o q : q \in routes(w, d, p[1], dest)} :
                   p \in {q \in d : /\ q[1] \in Neighbours(c)
                                    /\ path_cost(w, q[1]) > 0
                                    /\ <<c, step_cost(w, c, q[1]) + q[2]>> \in d}}

(* BaseAI.get_path_to: the paths the pathfinder may return; the empty path
   alone when the destination cannot be reached. *)
BaseAI_get_path_to(w, e, dest_x, dest_y) ==
    LET d == route_cost(w, <<dest_x, dest_y>>, Cardinality(w.game_map.walkable))
        start == <<w.actors[e].x, w.actors[e].y>>
    IN  IF \A p \in d : p[1] # start THEN {<<>>}
        ELSE routes(w, d, start, <<dest_x, dest_y>>)

(* The tail of perform shared by the chasing strategies: one step along the
   cached path if there is one, else wait. *)
follow_path(w, e) ==
    LET path == w.actors[e].ai[1].path
    IN  IF path # <<>>
        THEN MovementAction_perform([w EXCEPT !.actors[e].ai[1].path = Tail(path)], e,
                                    Head(path)[1] - w.actors[e].x,
                                    Head(path)[2] - w.actors[e].y)
        ELSE WaitAction_perform(w, e)

(* A HostileEnemy that does not ask whether its tile is visible. *)
HostileEnemy_perform_AlwaysSees(w, e) ==
    LET dx == w.actors[Player].x - w.actors[e].x
        dy == w.actors[Player].y - w.actors[e].y
        distance == Max(Abs(dx), Abs(dy))
    IN  IF distance <= 1 THEN {MeleeAction_perform(w, e, dx, dy)}
        ELSE {follow_path([w EXCEPT !.actors[e].ai[1].path = path], e) :
                 path \in BaseAI_get_path_to(w, e, w.actors[Player].x, w.actors[Player].y)}

(* A HostileEnemy that waits whenever its tile is out of sight. *)
HostileEnemy_perform_IdlesUnseen(w, e) ==
    LET dx == w.actors[Player].x - w.actors[e].x
        dy == w.actors[Player].y - w.actors[e].y
        distance == Max(Abs(dx), Abs(dy))
    IN  IF visible(w, w.actors[e].x, w.actors[e].y)
        THEN IF distance <= 1 THEN {MeleeAction_perform(w, e, dx, dy)}
             ELSE {follow_path([w EXCEPT !.actors[e].ai[1].path = path], e) :
                      path \in BaseAI_get_path_to(w, e, w.actors[Player].x, w.actors[Player].y)}
        ELSE {WaitAction_perform(w, e)}

HostileEnemy_perform(w, e) ==
    LET dx == w.actors[Player].x - w.actors[e].x
        dy == w.actors[Player].y - w.actors[e].y
        distance == Max(Abs(dx), Abs(dy))
    IN  IF visible(w, w.actors[e].x, w.actors[e].y)
        THEN IF distance <= 1 THEN {MeleeAction_perform(w, e, dx, dy)}
             ELSE {follow_path([w EXCEPT !.actors[e].ai[1].path = path], e) :
                      path \in BaseAI_get_path_to(w, e, w.actors[Player].x, w.actors[Player].y)}
        ELSE {follow_path(w, e)}

(* A ConfusedEnemy that reverts as soon as one turn is left. *)
ConfusedEnemy_perform_RevertsEarly(w, e) ==
    LET self == w.actors[e].ai[1]
        w0 == [w EXCEPT !.actors[e].ai[1].ticks = @ + 1]
    IN  IF self.turns_remaining <= 1
        THEN {Ok([add_message(w0, "is no longer confused", 0)
                    EXCEPT !.actors[e].ai = Tail(@),
                           !.obs.reverted = Append(@, [actor |-> e, kind |-> self.kind,
                                                       turns |-> self.turns,
                                                       ticks |-> self.ticks + 1])])}
        ELSE {BumpAction_perform([w0 EXCEPT !.actors[e].ai[1].turns_remaining = @ - 1],
                                 e, d[1], d[2]) : d \in Dirs8}

ConfusedEnemy_perform(w, e) ==
    LET self == w.actors[e].ai[1]
        w0 == [w EXCEPT !.actors[e].ai[1].ticks = @ + 1]
    IN  IF self.turns_remaining <= 0
        THEN {Ok([add_message(w0, "is no longer confused", 0)
                    EXCEPT !.actors[e].ai = Tail(@),
                           !.obs.reverted = Append(@, [actor |-> e, kind |-> self.kind,
                                                       turns |-> self.turns,
                                                       ticks |-> self.ticks + 1])])}
        ELSE {BumpAction_perform([w0 EXCEPT !.actors[e].ai[1].turns_remaining = @ - 1],
                                 e, d[1], d[2]) : d \in Dirs8}

(* A ParalyzedEnemy that takes a step to the east instead of waiting. *)
ParalyzedEnemy_perform_Stumbles(w, e) ==
    LET self == w.actors[e].ai[1]
        w0 == [w EXCEPT !.actors[e].ai[1].ticks = @ + 1]
    IN  IF self.turns_remaining <= 0
        THEN {Ok([add_message(w0, "breaks free from the ice", 0)
                    EXCEPT !.actors[e].ai = Tail(@),
                           !.obs.reverted = Append(@, [actor |-> e, kind |-> self.kind,
                                                       turns |-> self.turns,
                                                       ticks |-> self.ticks + 1])])}
        ELSE {BumpAction_perform([w0 EXCEPT !.actors[e].ai[1].turns_remaining = @ - 1],
                                 e, 1, 0)}

ParalyzedEnemy_perform(w, e) ==
    LET self == w.actors[e].ai[1]
        w0 == [w EXCEPT !.actors[e].ai[1].ticks = @ + 1]
    IN  IF self.turns_remaining <= 0
        THEN {Ok([add_message(w0, "breaks free from the ice", 0)
                    EXCEPT !.actors[e].ai = Tail(@),
                           !.obs.reverted = Append(@, [actor |-> e, kind |-> self.kind,
                                                       turns |-> self.turns,
                                                       ticks |-> self.ticks + 1])])}
        ELSE {WaitAction_perform([w0 EXCEPT !.actors[e].ai[1].turns_remaining = @ - 1], e)}

(* The first lines of perform on a visible tile, shared by the strategies
   that throw: a positive cooldown goes down by one. *)
(* A cooldown that is never counted down. *)
cool_down_Never(w, e) == w

cool_down(w, e) ==
    IF w.actors[e].ai[1].cooldown > 0
    THEN [w EXCEPT !.actors[e].ai[1].cooldown = @ - 1]
    ELSE w

(* self.path = self.get_path_to(target.x, target.y), then the shared tail. *)
chase(w, e) ==
    {follow_path([w EXCEPT !.actors[e].ai[1].path = path], e) :
        path \in BaseAI_get_path_to(w, e, w.actors[Player].x, w.actors[Player].y)}

(* 1, -1 or 0 after int(d / sqrt(d*d + o*o) * 10): 0 also when the scaled
   component is cut to 0. *)
scaled_sign(d, o) ==
    IF 100 * d * d >= d * d + o * o THEN Sign(d) ELSE 0

HostileEnemyWithProjectile_throw_projectile(w, e) ==
    LET dx == w.actors[Player].x - w.actors[e].x
        dy == w.actors[Player].y - w.actors[e].y
    IN  add_message(
            append_projectile(w,
                NewProjectile(w, "Projectile", e, 6, Fighter_power(w, e) \div 2,
                              scaled_sign(dx, dy), scaled_sign(dy, dx))),
            "throws a projectile", 0)

(* random.random() < projectile_chance may come out either way. *)
HostileEnemyWithProjectile_perform(w, e) ==
    LET dx == w.actors[Player].x - w.actors[e].x
        dy == w.actors[Player].y - w.actors[e].y
        distance == Max(Abs(dx), Abs(dy))
        w0 == cool_down(w, e)
    IN  IF visible(w, w.actors[e].x, w.actors[e].y)
        THEN IF distance <= 1 THEN {MeleeAction_perform(w0, e, dx, dy)}
             ELSE IF distance <= 6 /\ w0.actors[e].ai[1].cooldown = 0
             THEN {WaitAction_perform(
                       [HostileEnemyWithProjectile_throw_projectile(w0, e)
                          EXCEPT !.actors[e].ai[1].cooldown = 3], e)}
                    \cup chase(w0, e)
             ELSE chase(w0, e)
        ELSE {follow_path(w, e)}

(* Nothing is thrown from the player's own cell. *)
RangedEnemy_throw_projectile(w, e) ==
    LET dx == w.actors[Player].x - w.actors[e].x
        dy == w.actors[Player].y - w.actors[e].y
    IN  IF dx = 0 /\ dy = 0 THEN w
        ELSE add_message(
                 append_projectile(w,
                     NewProjectile(w, "Projectile", e, 8, Fighter_power(w, e),
                                   Sign(dx), Sign(dy))),
                 "fires at you", 0)

(* A RangedEnemy that strikes the player when it stands next to it. *)
RangedEnemy_perform_MeleesWhenAdjacent(w, e) ==
    LET dx == w.actors[Player].x - w.actors[e].x
        dy == w.actors[Player].y - w.actors[e].y
        distance == Max(Abs(dx), Abs(dy))
        w0 == cool_down(w, e)
    IN  IF visible(w, w.actors[e].x, w.actors[e].y)
        THEN IF distance <= 1 THEN {MeleeAction_perform(w0, e, dx, dy)}
             ELSE IF distance <= 2 THEN {MovementAction_perform(w0, e, -Sign(dx), -Sign(dy))}
             ELSE IF distance <= 6 /\ w0.actors[e].ai[1].cooldown = 0
             THEN {WaitAction_perform(
                       [RangedEnemy_throw_projectile(w0, e)
                          EXCEPT !.actors[e].ai[1].cooldown = 2], e)}
             ELSE chase(w0, e)
        ELSE {follow_path(w, e)}

RangedEnemy_perform(w, e) ==
    LET dx == w.actors[Player].x - w.actors[e].x
        dy == w.actors[Player].y - w.actors[e].y
        distance == Max(Abs(dx), Abs(dy))
        w0 == cool_down(w, e)
    IN  IF visible(w, w.actors[e].x, w.actors[e].y)
        THEN IF distance <= 2 THEN {MovementAction_perform(w0, e, -Sign(dx), -Sign(dy))}
             ELSE IF distance <= 6 /\ w0.actors[e].ai[1].cooldown = 0
             THEN {WaitAction_perform(
                       [RangedEnemy_throw_projectile(w0, e)
                          EXCEPT !.actors[e].ai[1].cooldown = 2], e)}
             ELSE chase(w0, e)
        ELSE {follow_path(w, e)}

BlacksmithAI_perform(w, e) ==
    {WaitAction_perform(w, e)}

(* A special attack whose ring carries the boss's power, not twice it. *)
BossAI_special_attack_PlainDamage(w, e) ==
    add_message(
        append_projectile(w,
            NewProjectile(w, "ShockwaveProjectile", e, 4, Fighter_power(w, e), 0, 0)),
        "unleashes a devastating attack", 0)

BossAI_special_attack(w, e) ==
    add_message(
        append_projectile(w,
            NewProjectile(w, "ShockwaveProjectile", e, 4, Fighter_power(w, e) * 2, 0, 0)),
        "unleashes a devastating attack", 0)

(* random.random() < special_attack_chance may come out either way. *)
BossAI_perform(w, e) ==
    LET dx == w.actors[Player].x - w.actors[e].x
        dy == w.actors[Player].y - w.actors[e].y
        distance == Max(Abs(dx), Abs(dy))
        w0 == cool_down(w, e)
    IN  IF visible(w, w.actors[e].x, w.actors[e].y)
        THEN IF distance <= 1 THEN {MeleeAction_perform(w0, e, dx, dy)}
             ELSE IF distance <= 5 /\ w0.actors[e].ai[1].cooldown = 0
             THEN {WaitAction_perform(
                       [BossAI_special_attack(w0, e) EXCEPT !.actors[e].ai[1].cooldown = 5],
                       e)}
                    \cup chase(w0, e)
             ELSE chase(w0, e)
        ELSE {follow_path(w, e)}

(* entity.ai.perform(), whatever the strategy. *)
AI_perform(w, e) ==
    LET kind == w.actors[e].ai[1].kind
    IN  CASE kind = "HostileEnemy" -> HostileEnemy_perform(w, e)
          [] kind = "ConfusedEnemy" -> ConfusedEnemy_perform(w, e)
          [] kind = "ParalyzedEnemy" -> ParalyzedEnemy_perform(w, e)
          [] kind = "HostileEnemyWithProjectile" -> HostileEnemyWithProjectile_perform(w, e)
          [] kind = "RangedEnemy" -> RangedEnemy_perform(w, e)
          [] kind = "BossAI" -> BossAI_perform(w, e)
          [] kind = "BlacksmithAI" -> BlacksmithAI_perform(w, e)

----------------------------------------------------------------------------
(* Engine.handle_enemy_turns (src/engine.py) *)

(* The orders in which the loop may visit the actors of a set. *)
RECURSIVE Orders(_)
Orders(S) ==
    IF S = {} THEN {<<>>}
    ELSE UNION {{<<a>> \o rest : rest \in Orders(S \ {a})} : a \in S}

(* One turn of the loop: an actor with a strategy decides, and an Impossible
   it raises is caught and ignored. *)
enemy_turn(w, e) ==
    IF w.actors[e].ai = NoAI THEN {Ok(w)}
    ELSE {Ok([r.w EXCEPT !.obs.decisions = Append(@, [actor |-> e, raised |-> r.raised,
                                                        hp |-> w.actors[e].hp])]) :
             r \in AI_perform(w, e)}

(* One turn of a loop without the try: an Impossible leaves the loop. *)
enemy_turn_Uncaught(w, e) ==
    IF w.actors[e].ai = NoAI THEN {Ok(w)}
    ELSE {[r EXCEPT !.w.obs.decisions = Append(@, [actor |-> e, raised |-> r.raised,
                                                        hp |-> w.actors[e].hp])] :
             r \in AI_perform(w, e)}

RECURSIVE enemy_turns_Uncaught(_, _)
enemy_turns_Uncaught(results, order) ==
    IF order = <<>> THEN results
    ELSE enemy_turns_Uncaught(
             {r \in results : r.raised}
               \cup UNION {enemy_turn_Uncaught(r.w, Head(order)) : r \in {q \in results : ~q.raised}},
             Tail(order))

Engine_handle_enemy_turns_Uncaught(w) ==
    UNION {enemy_turns_Uncaught({Ok(w)}, order) : order \in Orders(map_actors(w) \ {Player})}

RECURSIVE enemy_turns(_, _)
enemy_turns(results, order) ==
    IF order = <<>> THEN results
    ELSE enemy_turns(UNION {enemy_turn(r.w, Head(order)) : r \in results}, Tail(order))

(* A pass that gives the player a turn like everybody else. *)
Engine_handle_enemy_turns_PlayerToo(w) ==
    UNION {enemy_turns({Ok(w)}, order) : order \in Orders(map_actors(w))}

Engine_handle_enemy_turns(w) ==
    UNION {enemy_turns({Ok(w)}, order) : order \in Orders(map_actors(w) \ {Player})}

----------------------------------------------------------------------------
(* Engine.update_realtime (src/engine.py) *)

(* enemy_turn_interval, in units of the clock. *)
EnemyTurnInterval == 1

(* The scan of update_realtime: a live actor other than the player, with a
   strategy, on a visible tile. *)
hostile_visible(w) ==
    \E e \in map_actors(w) \ {Player} :
        w.actors[e].ai # NoAI /\ visible(w, w.actors[e].x, w.actors[e].y)

(* The rest of the frame once the scan found nobody: back to exploration,
   the enemies' turns when the interval has passed, then the projectiles. *)
explore(w, current_time, calm) ==
    LET w1 == IF calm /\ w.engine.game_state = "TURN_BASED"
              THEN add_message([w EXCEPT !.engine.game_state = "EXPLORATION"],
                               "Combat ended.", 0)
              ELSE w
        turns == IF current_time - w1.engine.last_enemy_turn_time >= EnemyTurnInterval
                 THEN {IF r.raised THEN r
                       ELSE Ok([r.w EXCEPT !.engine.last_enemy_turn_time = current_time]) :
                          r \in Engine_handle_enemy_turns(w1)}
                 ELSE {Ok(w1)}
    IN  {IF r.raised THEN r ELSE Ok(Engine_update_projectiles(r.w)) : r \in turns}

(* An update_realtime whose scan does not return: the clock is read on
   every frame. *)
Engine_update_realtime_NoEarlyReturn(w, current_time) ==
    IF hostile_visible(w)
    THEN explore(IF w.engine.game_state = "EXPLORATION"
                 THEN add_message([w EXCEPT !.engine.game_state = "TURN_BASED"],
                                  "Enemy spotted! Combat started.", 0)
                 ELSE w,
                 current_time, FALSE)
    ELSE explore(w, current_time, TRUE)

(* An update_realtime that announces the combat on every frame that finds
   somebody in sight. *)
Engine_update_realtime_AnnouncesAgain(w, current_time) ==
    IF hostile_visible(w)
    THEN {Ok(add_message([w EXCEPT !.engine.game_state = "TURN_BASED"],
                         "Enemy spotted! Combat started.", 0))}
    ELSE explore(w, current_time, TRUE)

(* An update_realtime that never leaves turn-based mode. *)
Engine_update_realtime_StaysTurnBased(w, current_time) ==
    IF hostile_visible(w)
    THEN {Ok(IF w.engine.game_state = "EXPLORATION"
             THEN add_message([w EXCEPT !.engine.game_state = "TURN_BASED"],
                              "Enemy spotted! Combat started.", 0)
             ELSE w)}
    ELSE explore(w, current_time, FALSE)

Engine_update_realtime(w, current_time) ==
    IF hostile_visible(w)
    THEN {Ok(IF w.engine.game_state = "EXPLORATION"
             THEN add_message([w EXCEPT !.engine.game_state = "TURN_BASED"],
                              "Enemy spotted! Combat started.", 0)
             ELSE w)}
    ELSE explore(w, current_time, TRUE)

(* Engine.update_fov: the visible tiles are recomputed around the player;
   the player's own tile is always among them. *)
Engine_update_fov(w) ==
    {[w EXCEPT !.game_map.visible = v] :
        v \in {w.game_map.walkable, {<<w.actors[Player].x, w.actors[Player].y>>}}}

----------------------------------------------------------------------------
(* Construction (src/entity_factories.py) *)

NoLast ==
    [op |-> "none", entity |-> None, dx |-> 0, dy |-> 0, arg |-> None,
     raised |-> FALSE, error |-> None]

NewActor(x, y, hp, base_defense, base_power, capacity) ==
    [x |-> x, y |-> y, hp |-> hp, max_hp |-> hp,
     base_defense |-> base_defense, base_power |-> base_power,
     buffs |-> [strength |-> NoBuff, defense |-> NoBuff],
     ai |-> <<HostileEnemy(<<>>)>>, facing_direction |-> <<0, 1>>,
     inventory |-> <<>>, capacity |-> capacity, skills |-> <<>>]

(* player, orc and troll of entity_factories.py, with the hp of the model. *)
NewPlayer(x, y, hp) == NewActor(x, y, hp, 1, 2, 26)
NewOrc(x, y, hp) == NewActor(x, y, hp, 0, 3, 0)
NewTroll(x, y, hp) == NewActor(x, y, hp, 1, 4, 0)

(* The player with a strength potion at work: turns more attacks to go. *)
WithStrength(a, turns) ==
    IF turns = NoBuff THEN a
    ELSE [a EXCEPT !.buffs.strength = turns, !.base_power = @ + StrengthBoost]

NewEngine ==
    [game_state |-> "EXPLORATION", last_enemy_turn_time |-> 0,
     active_projectiles |-> <<>>, spawned |-> 0]

----------------------------------------------------------------------------
(* An operation: pre and last record it, the variables take its result. *)

SetWorld(w) ==
    /\ actors' = w.actors
    /\ items' = w.items
    /\ game_map' = w.game_map
    /\ engine' = w.engine
    /\ game_world' = w.game_world
    /\ message_log' = w.message_log
    /\ obs' = w.obs

Do(op, e, dx, dy, arg, r) ==
    /\ pre' = Begin(W)
    /\ last' = [op |-> op, entity |-> e, dx |-> dx, dy |-> dy, arg |-> arg,
                raised |-> r.raised, error |-> r.error]
    /\ SetWorld(r.w)

----------------------------------------------------------------------------
(* Melee and movement: from any placement of the actors, one live actor
   moves, attacks or bumps in one of the nine directions, or actors throw. *)

WithDefense(a, turns) ==
    IF turns = NoBuff THEN a
    ELSE [a EXCEPT !.buffs.defense = turns, !.base_defense = @ + DefenseBoost]

InitMelee ==
    /\ \E pp \in Floor, op \in Floor \ {<<2, 2>>}, hp \in 1..MaxHp,
          turns \in {NoBuff, 1, 2}, dturns \in {NoBuff, 1} :
          /\ pp # op /\ pp # <<2, 2>>
          /\ actors = [a \in Actors |->
                         CASE a = "player" ->
                                WithDefense(WithStrength(NewPlayer(pp[1], pp[2], MaxHp), turns), dturns)
                           [] a = "orc" ->
                                [NewOrc(op[1], op[2], hp) EXCEPT !.facing_direction = <<1, 0>>]
                           [] OTHER -> NewTroll(2, 2, MaxHp)]
    /\ \E present \in SUBSET {"troll"} :
          game_map = [walkable |-> Floor, visible |-> Floor,
                      entities |-> {"player", "orc"} \cup present,
                      downstairs_location |-> <<2, 2>>]
    /\ items = <<>>
    /\ engine = NewEngine
    /\ game_world = [current_floor |-> 1]
    /\ message_log = <<>>
    /\ obs = NoObs
    /\ now = 0
    /\ pre = Begin(W)
    /\ last = NoLast

Movement ==
    /\ last.op = "none"
    /\ \E e \in map_actors(W), d \in Dirs9 :
          Do("Movement", e, d[1], d[2], None, MovementAction_perform(Begin(W), e, d[1], d[2]))
    /\ UNCHANGED now

Melee ==
    /\ last.op = "none"
    /\ \E e \in map_actors(W), d \in Dirs9 :
          Do("Melee", e, d[1], d[2], None, MeleeAction_perform(Begin(W), e, d[1], d[2]))
    /\ UNCHANGED now

Bump ==
    /\ last.op = "none"
    /\ \E e \in map_actors(W), d \in Dirs9 :
          Do("Bump", e, d[1], d[2], None, BumpAction_perform(Begin(W), e, d[1], d[2]))
    /\ UNCHANGED now

(* An actor throws, MaxThrown times at most, along or against the x axis or
   in no direction. *)
ThrowProjectile ==
    /\ last.op \in {"none", "ThrowProjectile"}
    /\ engine.spawned < MaxThrown
    /\ \E e \in map_actors(W), d \in {<<0, 0>>, <<1, 0>>, <<-1, 0>>} :
          Do("ThrowProjectile", e, d[1], d[2], None,
             ThrowProjectileAction_perform(Begin(W), e, d[1], d[2]))
    /\ UNCHANGED now

NextMelee == Movement \/ Melee \/ Bump \/ ThrowProjectile

SpecMelee == InitMelee /\ [][NextMelee]_vars

----------------------------------------------------------------------------
(* Items and skills: from any placement, the player picks up, descends, uses
   an item or a skill, or an actor attacks or bumps. *)

ItemKinds ==
    {"confusion", "fireball", "healing", "lightning", "strength", "defense", "ice_bomb",
     "arrow", "shockwave", "cross_blast", "diagonal_blast"}
SkillNames == {"Lesser Heal", "Beam", "Fireball", "Lightning Bolt"}

NewItem(kind, x, y, parent) ==
    [kind |-> kind, x |-> x, y |-> y, parent |-> parent,
     damage |-> ItemDamage, radius |-> Radius, turns |-> Turns, range |-> ItemRange,
     amount |-> HealAmount]

NewSkill(name) ==
    CASE name = "Lesser Heal" -> HealSkill(HealAmount)
      [] name = "Beam" -> BeamSkill(ItemDamage, ItemRange)
      [] name = "Fireball" -> FireballSkill(ItemDamage, Radius)
      [] name = "Lightning Bolt" -> LightningSkill(ItemDamage, ItemRange)

InitItems ==
    /\ \E pp \in {<<0, 0>>, <<0, 1>>, <<2, 2>>}, op \in {<<1, 0>>, <<2, 1>>},
          tool \in ItemKinds \cup SkillNames, onfloor \in BOOLEAN, cap \in {1, 26},
          hurt \in BOOLEAN, buffed \in BOOLEAN, seeall \in BOOLEAN,
          others \in SUBSET {"orc"} :
          /\ game_world \in {[current_floor |-> f] :
                                f \in IF pp = <<2, 2>> THEN 1..MaxFloor ELSE {1}}
          /\ actors = [a \in Actors |->
                CASE a = "player" ->
                       [WithDefense(WithStrength(NewPlayer(pp[1], pp[2], MaxHp),
                                                 IF buffed THEN Turns ELSE NoBuff),
                                    IF buffed THEN Turns ELSE NoBuff)
                          EXCEPT !.hp = IF hurt THEN 1 ELSE MaxHp,
                                 !.capacity = cap,
                                 !.inventory = IF tool \in ItemKinds
                                               THEN <<Entry("item1")>> ELSE <<>>,
                                 !.skills = IF tool \in SkillNames
                                            THEN <<NewSkill(tool)>> ELSE <<>>]
                  [] a = "orc" -> NewOrc(op[1], op[2], MaxHp)
                  [] OTHER -> NewTroll(1, 2, MaxHp)]
          /\ items = [i \in Items |->
                CASE i = "item1" ->
                       IF tool \in ItemKinds THEN NewItem(tool, 0, 0, Player)
                       ELSE IF onfloor THEN NewItem("healing", pp[1], pp[2], "gamemap")
                       ELSE NewItem("healing", 0, 0, None)
                  [] OTHER ->
                       NewItem("healing", pp[1], pp[2], IF onfloor THEN "gamemap" ELSE None)]
          /\ game_map = [walkable |-> Floor,
                         visible |-> IF seeall THEN Floor ELSE {pp},
                         entities |-> {"player"} \cup others
                                        \cup (IF onfloor THEN {"item2"} ELSE {})
                                        \cup (IF onfloor /\ tool \in SkillNames
                                              THEN {"item1"} ELSE {}),
                         downstairs_location |-> <<2, 2>>]
    /\ engine = NewEngine
    /\ message_log = <<>>
    /\ obs = NoObs
    /\ now = 0
    /\ pre = Begin(W)
    /\ last = NoLast

Pickup ==
    /\ last.op = "none"
    /\ \E r \in PickupAction_perform(Begin(W), Player) : Do("Pickup", Player, 0, 0, None, r)
    /\ UNCHANGED now

TakeStairs ==
    /\ last.op = "none"
    /\ Do("TakeStairs", Player, 0, 0, None, TakeStairsAction_perform(Begin(W), Player))
    /\ UNCHANGED now

UseItem ==
    /\ last.op = "none"
    /\ \E k \in 1..Len(actors[Player].inventory), t \in Cells :
          \E r \in ItemAction_perform(Begin(W), Player, actors[Player].inventory[k].item,
                                      t[1], t[2], NoSkill) :
              Do("Item", Player, t[1], t[2], actors[Player].inventory[k].item, r)
    /\ UNCHANGED now

UseSkill ==
    /\ last.op = "none"
    /\ \E k \in 1..Len(actors[Player].skills), t \in Cells :
          \E r \in ItemAction_perform(Begin(W), Player, None, t[1], t[2],
                                      actors[Player].skills[k]) :
              Do("Skill", Player, t[1], t[2], actors[Player].skills[k].name, r)
    /\ UNCHANGED now

NextItems == Pickup \/ TakeStairs \/ UseItem \/ UseSkill \/ Melee \/ Bump

SpecItems == InitItems /\ [][NextItems]_vars

----------------------------------------------------------------------------
(* Projectiles in flight: the player fires scrolls and beams of every range,
   the frames advance them, and the orc walks about between the frames. *)

ProjectileItems == {"arrow", "shockwave", "cross_blast", "diagonal_blast"}

InitProjectiles ==
    /\ \E op \in {<<1, 0>>, <<2, 0>>, <<0, 1>>}, kind \in ProjectileItems \cup {"Beam"},
          range \in 0..MaxRange, second \in BOOLEAN,
          facing \in {<<1, 0>>, <<0, 1>>, <<1, 1>>} :
          /\ actors = [a \in Actors |->
                CASE a = "player" ->
                       [NewPlayer(0, 0, MaxHp)
                          EXCEPT !.facing_direction = facing,
                                 !.inventory =
                                     (IF kind \in ProjectileItems
                                      THEN <<Entry("item1")>> ELSE <<>>)
                                       \o (IF second THEN <<Entry("item2")>> ELSE <<>>),
                                 !.skills = IF kind = "Beam"
                                            THEN <<BeamSkill(ItemDamage, range)>>
                                            ELSE <<>>]
                  [] a = "orc" -> NewOrc(op[1], op[2], MaxHp)
                  [] OTHER -> NewTroll(1, 2, MaxHp)]
          /\ items = [i \in Items |->
                CASE i = "item1" ->
                       IF kind \in ProjectileItems
                       THEN [NewItem(kind, 0, 0, Player) EXCEPT !.range = range]
                       ELSE NewItem("healing", 0, 0, None)
                  [] OTHER -> [NewItem("cross_blast", 0, 0, IF second THEN Player ELSE None)
                                 EXCEPT !.range = MaxRange]]
    /\ game_map = [walkable |-> Floor, visible |-> Floor, entities |-> {"player", "orc"},
                   downstairs_location |-> <<2, 2>>]
    /\ engine = NewEngine
    /\ game_world = [current_floor |-> 1]
    /\ message_log = <<>>
    /\ obs = NoObs
    /\ now = 0
    /\ pre = Begin(W)
    /\ last = NoLast

(* The player fires a scroll of the inventory. *)
Fire ==
    /\ \E k \in 1..Len(actors[Player].inventory) :
          \E r \in ItemAction_perform(Begin(W), Player, actors[Player].inventory[k].item,
                                      actors[Player].x, actors[Player].y, NoSkill) :
              Do("Item", Player, 0, 0, actors[Player].inventory[k].item, r)
    /\ UNCHANGED now

(* The player casts the beam at its own cell (along its facing direction) or
   at a neighbouring cell, MaxBeams times at most. *)
CastBeam ==
    /\ actors[Player].skills # <<>>
    /\ engine.spawned < MaxBeams
    /\ \E t \in {<<0, 0>>, <<1, 0>>} :
          \E r \in ItemAction_perform(Begin(W), Player, None, t[1], t[2],
                                      actors[Player].skills[1]) :
              Do("Skill", Player, t[1], t[2], "Beam", r)
    /\ UNCHANGED now

(* One frame. *)
UpdateProjectiles ==
    /\ engine.active_projectiles # <<>>
    /\ Do("update_projectiles", None, 0, 0, None, Ok(Engine_update_projectiles(Begin(W))))
    /\ UNCHANGED now

(* The orc takes a step while something is in flight, one step a frame. *)
Walk ==
    /\ engine.active_projectiles # <<>>
    /\ last.op # "Movement"
    /\ "orc" \in game_map.entities
    /\ \E d \in Dirs8 :
          LET r == MovementAction_perform(Begin(W), "orc", d[1], d[2])
          IN  ~r.raised /\ Do("Movement", "orc", d[1], d[2], None, r)
    /\ UNCHANGED now

(* Projectile(..., can_hit_self=True) of the player is the first to join the
   collection, at rest or along the player's facing direction. *)
Launch ==
    /\ engine.spawned = 0
    /\ \E v \in {<<0, 0>>, actors[Player].facing_direction} :
          Do("Launch", Player, v[1], v[2], None,
             Ok(append_projectile(Begin(W),
                    [NewProjectile(Begin(W), "Projectile", Player, MaxRange, ItemDamage,
                                   v[1], v[2])
                       EXCEPT !.can_hit_self = TRUE])))
    /\ UNCHANGED now

NextProjectiles == Fire \/ CastBeam \/ UpdateProjectiles \/ Walk \/ Launch

SpecProjectiles == InitProjectiles /\ [][NextProjectiles]_vars

(* The frames as they are drawn: the player fires, and every frame is
   rendered any number of times between two updates. *)
Render ==
    /\ engine.active_projectiles # <<>>
    /\ \A k \in 1..Len(engine.active_projectiles) :
          engine.active_projectiles[k].frame_index < MaxRenders
    /\ Do("render", None, 0, 0, None, Ok(Engine_render(Begin(W))))
    /\ UNCHANGED now

NextRender == Fire \/ UpdateProjectiles \/ Render

SpecRender == InitProjectiles /\ [][NextRender]_vars

----------------------------------------------------------------------------
(* Enemies' turns: the player reads a scroll of confusion at an enemy, loses
   sight of the enemies, and the enemies take their turns. *)

InitAI ==
    /\ \E op \in {<<1, 0>>, <<2, 0>>, <<2, 1>>}, turns \in 0..Turns, seeall \in BOOLEAN,
          others \in SUBSET {"troll"} :
          /\ actors = [a \in Actors |->
                CASE a = "player" ->
                       [NewPlayer(0, 0, MaxHp) EXCEPT !.inventory = <<Entry("item1")>>]
                  [] a = "orc" -> NewOrc(op[1], op[2], MaxHp)
                  [] OTHER -> NewTroll(2, 2, MaxHp)]
          /\ items = [i \in Items |->
                CASE i = "item1" -> [NewItem("confusion", 0, 0, Player) EXCEPT !.turns = turns]
                  [] OTHER -> NewItem("healing", 0, 0, None)]
          /\ game_map = [walkable |-> Floor,
                         visible |-> IF seeall THEN Floor ELSE {<<0, 0>>},
                         entities |-> {"player", "orc"} \cup others,
                         downstairs_location |-> <<2, 2>>]
    /\ engine = NewEngine
    /\ game_world = [current_floor |-> 1]
    /\ message_log = <<>>
    /\ obs = NoObs
    /\ now = 0
    /\ pre = Begin(W)
    /\ last = NoLast

(* The player, while alive, reads a scroll of the inventory at a cell. *)
ReadScroll ==
    /\ Player \in game_map.entities
    /\ \E k \in 1..Len(actors[Player].inventory), t \in Cells :
          \E r \in ItemAction_perform(Begin(W), Player, actors[Player].inventory[k].item,
                                      t[1], t[2], NoSkill) :
              Do("Item", Player, t[1], t[2], actors[Player].inventory[k].item, r)
    /\ UNCHANGED now

EnemyTurns ==
    /\ engine.spawned < MaxThrown
    /\ \E r \in Engine_handle_enemy_turns(Begin(W)) :
          Do("handle_enemy_turns", None, 0, 0, None, r)
    /\ UNCHANGED now

(* The player loses sight of everything but its own tile. *)
LoseSight ==
    /\ game_map.visible = game_map.walkable
    /\ \E w \in Engine_update_fov(Begin(W)) :
          w.game_map.visible # game_map.walkable /\ Do("update_fov", None, 0, 0, None, Ok(w))
    /\ UNCHANGED now

NextAI == ReadScroll \/ EnemyTurns \/ LoseSight

SpecAI == InitAI /\ [][NextAI]_vars

----------------------------------------------------------------------------
(* The real-time scheduler: the clock runs, frames are scheduled, the field
   of view changes, and the player fires a blast. *)

MaxTime == 2

InitScheduler ==
    /\ \E op \in {<<1, 0>>, <<2, 0>>, <<2, 1>>}, seeall \in BOOLEAN, turns \in {NoBuff, 1} :
          /\ actors = [a \in Actors |->
                CASE a = "player" ->
                       [NewPlayer(0, 0, MaxHp) EXCEPT !.inventory = <<Entry("item1")>>]
                  [] a = "orc" ->
                       [NewOrc(op[1], op[2], MaxHp)
                          EXCEPT !.ai = IF turns = NoBuff THEN @
                                        ELSE <<ConfusedEnemy(turns)>> \o @]
                  [] OTHER -> NewTroll(2, 2, MaxHp)]
          /\ game_map = [walkable |-> Floor,
                         visible |-> IF seeall THEN Floor ELSE {<<0, 0>>},
                         entities |-> {"player", "orc"},
                         downstairs_location |-> <<2, 2>>]
    /\ items = [i \in Items |->
                  CASE i = "item1" -> NewItem("cross_blast", 0, 0, Player)
                    [] OTHER -> NewItem("healing", 0, 0, None)]
    /\ engine = NewEngine
    /\ game_world = [current_floor |-> 1]
    /\ message_log = <<>>
    /\ obs = NoObs
    /\ now = 0
    /\ pre = Begin(W)
    /\ last = NoLast

(* The field of view is recomputed. *)
UpdateFov ==
    /\ \E w \in Engine_update_fov(Begin(W)) : Do("update_fov", None, 0, 0, None, Ok(w))
    /\ UNCHANGED now

Tick ==
    /\ now < MaxTime
    /\ now' = now + 1
    /\ UNCHANGED <<actors, items, game_map, engine, game_world, message_log, obs, pre, last>>

(* One frame; last.dx records the time.monotonic() of the call. *)
UpdateRealtime ==
    /\ \E r \in Engine_update_realtime(Begin(W), now) :
          Do("update_realtime", None, now, 0, None, r)
    /\ UNCHANGED now

NextScheduler == Tick \/ UpdateRealtime \/ UpdateFov \/ Fire

SpecScheduler == InitScheduler /\ [][NextScheduler]_vars

----------------------------------------------------------------------------
(* Enemies of every strategy: an orc with one of the strategies, confused or
   paralyzed or neither, in a room with a corridor, the enemies' turns of turn-based play and the frames of the scheduler. *)

Hall == Floor \cup {<<3, 0>>, <<3, 1>>}

Strategies ==
    {<<HostileEnemyWithProjectile(<<>>, 0)>>, <<RangedEnemy(<<>>, 0)>>, <<BossAI(<<>>, 0)>>,
     <<HostileEnemyWithProjectile(<<>>, 1)>>, <<RangedEnemy(<<>>, 1)>>, <<BossAI(<<>>, 1)>>,
     <<BlacksmithAI>>, <<HostileEnemy(<<>>)>>,
     <<ConfusedEnemy(1), HostileEnemy(<<>>)>>, <<ParalyzedEnemy(1), RangedEnemy(<<>>, 0)>>}

InitThrowers ==
    /\ \E op \in {<<1, 0>>, <<2, 0>>, <<3, 0>>, <<2, 1>>}, ai \in Strategies,
          seeall \in BOOLEAN :
          /\ actors = [a \in Actors |->
                CASE a = "player" -> NewPlayer(0, 0, MaxHp)
                  [] a = "orc" -> [NewOrc(op[1], op[2], MaxHp) EXCEPT !.ai = ai]
                  [] OTHER -> NewTroll(2, 2, MaxHp)]
          /\ game_map = [walkable |-> Hall,
                         visible |-> IF seeall THEN Hall ELSE {<<0, 0>>},
                         entities |-> {"player", "orc"},
                         downstairs_location |-> <<2, 2>>]
    /\ items = [i \in Items |-> NewItem("healing", 0, 0, None)]
    /\ engine = NewEngine
    /\ game_world = [current_floor |-> 1]
    /\ message_log = <<>>
    /\ obs = NoObs
    /\ now = 0
    /\ pre = Begin(W)
    /\ last = NoLast

NextThrowers == Tick \/ UpdateRealtime \/ LoseSight \/ EnemyTurns

SpecThrowers == InitThrowers /\ [][NextThrowers]_vars

----------------------------------------------------------------------------
(* The operation just performed, seen from the state it left. *)

DidOp(op) == last.op = op
DestX == pre.actors[last.entity].x + last.dx
DestY == pre.actors[last.entity].y + last.dy

(* C1: MovementAction.perform moves the actor to exactly (x+dx, y+dy) if and
   only if the destination is in bounds, walkable and free of blocking
   entities; otherwise it raises Impossible and nothing has moved. *)
C1_MovementIffFree ==
    DidOp("Movement") =>
        LET free == /\ in_bounds(DestX, DestY)
                    /\ <<DestX, DestY>> \in pre.game_map.walkable
                    /\ \A a \in Actors : a \in pre.game_map.entities =>
                          <<pre.actors[a].x, pre.actors[a].y>> # <<DestX, DestY>>
        IN  /\ last.raised <=> ~free
            /\ ~last.raised =>
                  /\ actors[last.entity].x = DestX
                  /\ actors[last.entity].y = DestY
            /\ last.raised => actors = pre.actors
            /\ \A a \in Actors \ {last.entity} : actors[a] = pre.actors[a]

C1_Witness_Moved ==
    DidOp("Movement") /\ ~last.raised /\ <<last.dx, last.dy>> # <<0, 0>>

C1_Witness_BlockedByEntity ==
    /\ DidOp("Movement") /\ last.raised
    /\ in_bounds(DestX, DestY) /\ <<DestX, DestY>> \in pre.game_map.walkable
    /\ <<last.dx, last.dy>> # <<0, 0>>

(* The actor a melee at the destination cell finds, in the world before. *)
MeleeTarget == get_actor_at_location(pre, DestX, DestY)
MeleeDamage ==
    Max(0, pre.actors[last.entity].base_power - pre.actors[MeleeTarget].base_defense)

IsAttackMessage(m) == m.text \in {"attacks for hit points", "attacks but does no damage"}
IsExpiryMessage(m) == m.text \in {"strength boost has worn off", "defense boost has worn off"}

(* The timed buffs of the attacker that run out on this attack. *)
ExpiringBuffs ==
    LET b == pre.actors[last.entity].buffs
    IN  (IF b.strength # NoBuff /\ b.strength - 1 <= 0 THEN 1 ELSE 0)
          + (IF b.defense # NoBuff /\ b.defense - 1 <= 0 THEN 1 ELSE 0)

MeleeHpEffect ==
    /\ actors[MeleeTarget].hp = pre.actors[MeleeTarget].hp - MeleeDamage
    /\ Len(obs.hp_sets) = (IF MeleeDamage > 0 THEN 1 ELSE 0)
    /\ \A a \in Actors : actors[a].hp <= pre.actors[a].hp

(* C2 as claimed: a melee against a cell holding an actor subtracts
   max(0, power - defense) from the defender's hp exactly once, raises no hp,
   and appends exactly one log message. *)
C2_Original_OneLogMessage ==
    (DidOp("Melee") /\ MeleeTarget # None) =>
        /\ ~last.raised
        /\ MeleeHpEffect
        /\ Len(message_log) = 1

(* C2 as amended: the same effect on hp, and exactly one attack message, the
   last of the log, after one expiry message for every timed buff of the
   attacker that runs out on this attack. *)
C2_MeleeDamageOnce ==
    (DidOp("Melee") /\ MeleeTarget # None) =>
        /\ ~last.raised
        /\ MeleeHpEffect
        /\ Len(message_log) = 1 + ExpiringBuffs
        /\ IsAttackMessage(message_log[Len(message_log)])
        /\ message_log[Len(message_log)].n = MeleeDamage
        /\ \A i \in 1..(Len(message_log) - 1) : IsExpiryMessage(message_log[i])

C2_Witness_HitAfterExpiry ==
    /\ DidOp("Melee") /\ MeleeTarget # None /\ MeleeTarget # last.entity
    /\ MeleeDamage > 0 /\ ExpiringBuffs > 0

(* C8: when perform() of Melee, Bump, Pickup, TakeStairs or ItemAction (with
   a consumable or a skill) raises Impossible, nothing has changed: the
   actors (position, hp, inventory, strategy), the items, the map with its
   entity set, the floor number and the engine with its active projectiles
   are as before the call. *)
C8_ImpossibleHasNoEffect ==
    (last.op \in {"Melee", "Bump", "Pickup", "TakeStairs", "Item", "Skill"} /\ last.raised) =>
        /\ actors = pre.actors
        /\ items = pre.items
        /\ game_map = pre.game_map
        /\ game_world = pre.game_world
        /\ engine = pre.engine

(* A potion drunk at full health: the refusal the claim is about. *)
C8_Witness_RefusedPotion ==
    /\ DidOp("Item") /\ last.raised
    /\ pre.items[last.arg].kind = "healing"
    /\ pre.actors[Player].hp = pre.actors[Player].max_hp

----------------------------------------------------------------------------
(* Projectiles *)

SeqSet(seq) == {seq[k] : k \in 1..Len(seq)}
NoDuplicates(seq) == \A i, j \in 1..Len(seq) : i # j => seq[i] # seq[j]
IsPrefix(a, b) == Len(a) <= Len(b) /\ \A k \in 1..Len(a) : a[k] = b[k]

(* The projectiles of the active collection, and with them the ones the most
   recent operation removed from it. *)
Active == SeqSet(engine.active_projectiles)
Seen == Active \cup SeqSet(obs.purged)
Before == SeqSet(pre.engine.active_projectiles)

IsStraight(p) == p.kind \in {"Projectile", "DirectionalProjectile"}

(* C3: a projectile of any variant hits a given actor at most once, however
   often the actor's cell is tested and wherever the actor walks between the
   frames: the hits are the hit set, no actor is hit twice, an operation
   sets the hp of an actor at most once for each projectile that newly hit
   it, and the hit set only grows. *)
C3_HitAtMostOnce ==
    /\ \A p \in Seen : NoDuplicates(p.struck) /\ SeqSet(p.struck) = p.hit_actors
    /\ \A p \in Seen : \A q \in Before :
          q.id = p.id => q.hit_actors \subseteq p.hit_actors /\ IsPrefix(q.struck, p.struck)
    /\ DidOp("update_projectiles") =>
          \A a \in Actors :
              Cardinality({k \in 1..Len(obs.hp_sets) : obs.hp_sets[k].actor = a})
                <= Cardinality({p \in Seen : \E q \in Before :
                                   q.id = p.id /\ a \in p.hit_actors \ q.hit_actors})

(* A plus whose arm holds, at its second update or later, a live actor it had
   hit before: the cell is tested again. *)
C3_Witness_Retested ==
    /\ DidOp("update_projectiles")
    /\ \E p \in Active :
          /\ p.kind = "CrossProjectile" /\ p.updates >= 2
          /\ \E q \in Before : q.id = p.id /\ "orc" \in q.hit_actors
          /\ "orc" \in game_map.entities
          /\ actors["orc"] = pre.actors["orc"]
          /\ actors["orc"].y = actors[p.actor].y
          /\ Abs(actors["orc"].x - actors[p.actor].x) <= p.distance_travelled

(* C6: one call of update_projectiles calls update exactly once on every
   projectile the collection held when it began, and leaves no projectile
   with done = TRUE in the collection; nor does any other operation. *)
C6_UpdateOnceAndPurge ==
    /\ \A p \in Active : ~p.done
    /\ DidOp("update_projectiles") =>
          /\ Len(obs.updated) = Len(pre.engine.active_projectiles)
          /\ \A q \in Before :
                /\ Cardinality({k \in 1..Len(obs.updated) : obs.updated[k] = q.id}) = 1
                /\ \E p \in Seen : p.id = q.id /\ p.updates = q.updates + 1
          /\ \A p \in SeqSet(obs.purged) : p.done

(* A frame that removes the first of two projectiles and keeps the second. *)
C6_Witness_PurgedOneOfTwo ==
    /\ DidOp("update_projectiles")
    /\ Len(pre.engine.active_projectiles) = 2
    /\ Len(obs.purged) = 1
    /\ obs.purged[1].id = pre.engine.active_projectiles[1].id

(* The cell a straight-line projectile reaches with its k-th step, and
   whether that cell stops it: off the map or not walkable. *)
CellAtStep(p, k) ==
    <<p.x - p.dx * p.distance_travelled + p.dx * k,
      p.y - p.dy * p.distance_travelled + p.dy * k>>
Stops(p, k) ==
    \/ ~in_bounds(CellAtStep(p, k)[1], CellAtStep(p, k)[2])
    \/ CellAtStep(p, k) \notin game_map.walkable

(* The update at which a straight-line projectile is done: that of the first
   step onto a stopping cell, and max(range, 1) at the latest. *)
LastUpdate(p) ==
    LET far == Max(p.range, 1)
    IN  IF \E k \in 1..far : Stops(p, k)
        THEN CHOOSE k \in 1..far : Stops(p, k) /\ \A j \in 1..(k - 1) : ~Stops(p, j)
        ELSE far

Unobstructed(p) == \A k \in 1..p.range : ~Stops(p, k)

(* C10 as claimed: an unobstructed straight-line projectile of range R is done
   after exactly R + 1 updates, an obstructed one earlier. *)
C10_Original_DoneAfterRPlus1 ==
    \A p \in SeqSet(obs.purged) :
        IsStraight(p) =>
            IF Unobstructed(p) THEN p.updates = p.range + 1 ELSE p.updates < p.range + 1

(* C10 as amended: on an unchanging map a straight-line projectile of range R
   and unit velocity is done after exactly min(k, max(R, 1)) updates and not
   before, k being the first step that takes it onto a non-walkable tile or
   off the map; unobstructed, that is after R updates (one update if R = 0). *)
C10_DoneAfterRange ==
    /\ \A p \in Active :
          IsStraight(p) =>
              ~p.done /\ p.updates = p.distance_travelled /\ p.updates < LastUpdate(p)
    /\ \A p \in SeqSet(obs.purged) :
          IsStraight(p) =>
              /\ p.done /\ p.updates = p.distance_travelled /\ p.updates = LastUpdate(p)
              /\ Unobstructed(p) => p.updates = Max(p.range, 1)

C10_Witness_DoneAtRange ==
    \E p \in SeqSet(obs.purged) :
        IsStraight(p) /\ Unobstructed(p) /\ p.range >= 2 /\ p.updates = p.range

----------------------------------------------------------------------------
(* The scheduler *)

(* At the call of the operation, a live actor other than the player that has
   a strategy stood on a visible tile. *)
SpottedBefore ==
    \E e \in Actors \ {Player} :
        /\ e \in pre.game_map.entities
        /\ pre.actors[e].ai # NoAI
        /\ <<pre.actors[e].x, pre.actors[e].y>> \in pre.game_map.visible

(* C4: the scheduler starts in exploration mode, and after every call of
   update_realtime the mode is turn-based if and only if, at that call, a
   non-player actor with a strategy stood on a visible tile. *)
C4_ModeFollowsSight ==
    /\ last.op = "none" => engine.game_state = "EXPLORATION"
    /\ DidOp("update_realtime") =>
          /\ engine.game_state \in {"EXPLORATION", "TURN_BASED"}
          /\ engine.game_state = "TURN_BASED" <=> SpottedBefore

C4_Witness_BackToExploration ==
    /\ DidOp("update_realtime")
    /\ pre.engine.game_state = "TURN_BASED"
    /\ engine.game_state = "EXPLORATION"
    /\ ~SpottedBefore

(* C5: every call of update_realtime advances every live projectile by
   exactly one update, in exploration and in turn-based mode alike. *)
C5_AdvancesEveryFrame ==
    DidOp("update_realtime") =>
        \A q \in Before :
            \E p \in Seen : p.id = q.id /\ p.updates = q.updates + 1

----------------------------------------------------------------------------
(* The enemies' turns *)

Decided == {obs.decisions[k].actor : k \in 1..Len(obs.decisions)}

(* C7: handle_enemy_turns never lets an Impossible (or any other exception of
   the model) out, and every live non-player actor with a strategy gets
   exactly one decision in the pass, the ones that die during the pass before
   their turn excepted; the player gets none. *)
C7_EnemyTurnsNeverRaise ==
    DidOp("handle_enemy_turns") =>
        /\ ~last.raised /\ last.error = None
        /\ NoDuplicates([k \in 1..Len(obs.decisions) |-> obs.decisions[k].actor])
        /\ Decided \subseteq (Actors \cap pre.game_map.entities) \ {Player}
        /\ \A e \in (Actors \cap pre.game_map.entities) \ {Player} :
              pre.actors[e].ai # NoAI => e \in Decided \/ actors[e].ai = NoAI

C7_Witness_DecidedAfterImpossible ==
    /\ DidOp("handle_enemy_turns")
    /\ Len(obs.decisions) = 2
    /\ obs.decisions[1].raised

----------------------------------------------------------------------------
(* Confusion *)

IsConfused(a) == a.ai # NoAI /\ a.ai[1].kind = "ConfusedEnemy"

Reverts == {r \in SeqSet(obs.reverted) : r.kind = "ConfusedEnemy"}

(* C9 as claimed: an actor confused for N turns has its previous strategy back
   once exactly N decision ticks have completed, and is still confused after
   N - 1 of them. *)
C9_Original_RevertsAfterN ==
    /\ \A e \in Actors :
          IsConfused(actors[e]) /\ actors[e].ai[1].turns >= 1 =>
              actors[e].ai[1].ticks < actors[e].ai[1].turns
    /\ \A r \in Reverts : r.ticks = r.turns

(* C9 as amended: an actor confused for N turns while its strategy was P is
   still confused after N decision ticks (with N - k turns remaining after k
   of them) and has P back once exactly N + 1 decision ticks have completed;
   the tick that restores P takes no action (the actor may still be killed
   by another actor later in the same pass). *)
C9_RevertsAfterNPlus1 ==
    /\ \A e \in Actors :
          IsConfused(actors[e]) =>
              /\ actors[e].ai[1].ticks \in 0..actors[e].ai[1].turns
              /\ actors[e].ai[1].turns_remaining
                    = actors[e].ai[1].turns - actors[e].ai[1].ticks
    /\ \A r \in Reverts :
          /\ r.ticks = r.turns + 1
          /\ IsConfused(pre.actors[r.actor])
          /\ \/ actors[r.actor].ai = Tail(pre.actors[r.actor].ai)
             \/ actors[r.actor].ai = NoAI /\ r.actor \notin game_map.entities
          /\ actors[r.actor].x = pre.actors[r.actor].x
          /\ actors[r.actor].y = pre.actors[r.actor].y
    /\ DidOp("Item") /\ ~last.raised /\ pre.items[last.arg].kind = "confusion" =>
          \E e \in Actors \ {Player} :
              /\ <<pre.actors[e].x, pre.actors[e].y>> = <<last.dx, last.dy>>
              /\ actors[e].ai = <<ConfusedEnemy(pre.items[last.arg].turns)>> \o pre.actors[e].ai

C9_Witness_Reverted ==
    \E r \in Reverts : r.turns >= 2 /\ r.ticks = r.turns + 1

----------------------------------------------------------------------------
(* The expanding ring *)

(* The Chebyshev distance of two actors as the last operation found them. *)
ChebyshevBefore(a, b) ==
    Max(Abs(pre.actors[a].x - pre.actors[b].x), Abs(pre.actors[a].y - pre.actors[b].y))

(* The actors a projectile hit in the last operation. *)
NewlyHit(p) ==
    {a \in p.hit_actors : \A q \in Before : q.id = p.id => a \notin q.hit_actors}

(* C11: an expanding ring of range R is not done after R updates and is done
   after R + 1; its update number d (1 <= d <= R) hits every live actor other
   than the owner that stands at Chebyshev distance d from the owner and was
   not hit before, and hits nobody else, so that an actor that stays at
   distance d of an origin that stays where it is, is hit at update d and at
   no other (it is hit once: C3). *)
C11_RingDoneAfterRPlus1 ==
    /\ \A p \in Active :
          p.kind = "ShockwaveProjectile" =>
              ~p.done /\ p.updates <= p.range /\ p.expanding_radius = p.updates
    /\ \A p \in SeqSet(obs.purged) :
          p.kind = "ShockwaveProjectile" =>
              p.done /\ p.updates = p.range + 1 /\ NewlyHit(p) = {}
    /\ DidOp("update_projectiles") =>
          \A p \in Active :
              p.kind = "ShockwaveProjectile" =>
                  /\ \A a \in NewlyHit(p) :
                        a # p.actor /\ ChebyshevBefore(a, p.actor) = p.updates
                  /\ \A a \in (Actors \cap pre.game_map.entities) \ {p.actor} :
                        ChebyshevBefore(a, p.actor) = p.updates =>
                            a \in p.hit_actors \/ a \notin game_map.entities

(* A ring of range 2 or more hits, at its second update, the orc two cells
   from its owner. *)
C11_Witness_HitAtDistance2 ==
    /\ DidOp("update_projectiles")
    /\ \E p \in Active :
          /\ p.kind = "ShockwaveProjectile" /\ p.updates = 2
          /\ "orc" \in NewlyHit(p)
          /\ ChebyshevBefore("orc", p.actor) = 2

----------------------------------------------------------------------------
(* Projectiles thrown by the enemies *)

(* The projectiles an AI decision of the most recent operation appended. *)
ThrownNow == {p \in Seen : p.id > pre.engine.spawned /\ p.actor # Player}

(* The projectiles an AI decision appended before the most recent operation
   that no frame has updated yet. *)
ThrownEarlier == {q \in Before : q.actor # Player /\ q.updates = 0}

(* C12: a frame (a call of update_realtime) updates no projectile that an AI
   decision of the same frame appended, and a projectile an AI decision
   appended earlier gets its first update in the next frame. *)
C12_FirstUpdateNextFrame ==
    DidOp("update_realtime") =>
        /\ \A p \in ThrownNow : p.updates = 0
        /\ \A q \in ThrownEarlier : \E p \in Seen : p.id = q.id /\ p.updates = 1

NoThrowInsideFrame == DidOp("update_realtime") => ThrownNow = {}
----------------------------------------------------------------------------
(* The owner of a projectile *)

(* How often actor a occurs in the hits of projectile p. *)
TimesStruck(p, a) == Cardinality({k \in 1..Len(p.struck) : p.struck[k] = a})

(* C13: a projectile constructed with can_hit_self false never hits its owner
   (the owner is never in its hit set, and no update lowers the owner's hp
   unless another projectile, or one that can hit its owner, newly hit it);
   a projectile with can_hit_self true hits its owner at most once. *)
C13_OwnerNotHit ==
    /\ \A p \in Seen :
          /\ ~p.can_hit_self => p.actor \notin p.hit_actors /\ TimesStruck(p, p.actor) = 0
          /\ p.can_hit_self => TimesStruck(p, p.actor) <= 1
    /\ (DidOp("update_projectiles") \/ DidOp("update_realtime")) =>
          \A a \in Actors :
              actors[a].hp < pre.actors[a].hp =>
                  \/ \E p \in Seen : a \in NewlyHit(p) /\ (p.actor # a \/ p.can_hit_self)
                  \/ \E k \in 1..Len(obs.decisions) : obs.decisions[k].actor # a

(* One frame updates a plus through its owner's cell, the owner unhurt by it,
   and for the second time a projectile that can hit its owner and rests on
   the owner's cell, having hit the owner in its first update. *)
C13_Witness_OwnCellTested ==
    /\ DidOp("update_projectiles")
    /\ \E p \in Active : /\ p.kind = "CrossProjectile" /\ p.updates >= 1
                          /\ ~p.can_hit_self /\ p.actor \notin p.hit_actors
    /\ \E p \in Seen : /\ p.can_hit_self /\ p.updates = 2 /\ TimesStruck(p, p.actor) = 1
                        /\ p.x = actors[p.actor].x /\ p.y = actors[p.actor].y
                        /\ \E q \in Before : q.id = p.id /\ p.actor \in q.hit_actors
----------------------------------------------------------------------------
(* Rendering *)

(* C14: render leaves every projectile as it was (position, radius and reach,
   glyph, animation index, done, hit set), so that a second render right
   after it prints what the first one printed. *)
C14_RenderIsPure ==
    DidOp("render") =>
        /\ engine.active_projectiles = pre.engine.active_projectiles
        /\ Engine_render(W).obs.printed = obs.printed
----------------------------------------------------------------------------
(* Decisions out of the player's sight *)

(* The most recent operation was a pass of the enemies' turns in which actor e
   took its decision standing on a tile that was not visible. *)
TickedUnseen(e) ==
    /\ DidOp("handle_enemy_turns")
    /\ e \in Decided
    /\ <<pre.actors[e].x, pre.actors[e].y>> \notin pre.game_map.visible

(* The decision of e attacked nobody and spawned nothing: it moved e to the
   head of the path it had cached, or nowhere. *)
MovedAlongPathOrNot(e) ==
    /\ \A a \in Actors \ {e} : actors[a] = pre.actors[a]
    /\ \A k \in 1..Len(message_log) : ~IsAttackMessage(message_log[k])
    /\ engine = pre.engine
    /\ game_map = pre.game_map
    /\ [actors[e] EXCEPT !.x = 0, !.y = 0, !.ai = NoAI]
          = [pre.actors[e] EXCEPT !.x = 0, !.y = 0, !.ai = NoAI]
    /\ \/ actors[e].x = pre.actors[e].x /\ actors[e].y = pre.actors[e].y
       \/ /\ pre.actors[e].ai[1].path # <<>>
          /\ <<actors[e].x, actors[e].y>> = Head(pre.actors[e].ai[1].path)

(* C15 as claimed: whatever its strategy, an actor deciding on a tile out of
   sight attacks nobody and spawns no projectile; it moves to the head of
   its cached path or does nothing. *)
C15_Original_EveryStrategy ==
    \A e \in Actors : TickedUnseen(e) => MovedAlongPathOrNot(e)

(* C15: an actor of any strategy but the confused one, deciding on a tile out
   of sight, attacks nobody and spawns no projectile; it moves to the head of
   its cached path or does nothing. *)
C15_UnseenTickIsInert ==
    \A e \in Actors :
        TickedUnseen(e) /\ pre.actors[e].ai[1].kind # "ConfusedEnemy" => MovedAlongPathOrNot(e)

(* Out of sight, a chasing actor steps along the path it cached while it
   was seen. *)
C15_Witness_StepOnCachedPath ==
    /\ TickedUnseen("orc")
    /\ pre.actors["orc"].ai[1].kind \in {"HostileEnemy", "BossAI"}
    /\ pre.actors["orc"].ai[1].path # <<>>
    /\ <<actors["orc"].x, actors["orc"].y>> = Head(pre.actors["orc"].ai[1].path)
    /\ <<actors["orc"].x, actors["orc"].y>> # <<pre.actors["orc"].x, pre.actors["orc"].y>>
----------------------------------------------------------------------------
(* The enemy-turn clock *)

(* The time of the most recent call of update_realtime, and whether the
   interval had passed by then. *)
CurrentTime == last.dx
ClockDue == CurrentTime - pre.engine.last_enemy_turn_time >= EnemyTurnInterval

(* C16: in either mode, a call of update_realtime at time t runs one pass of
   the enemies' decisions if and only if the interval has passed since
   last_enemy_turn_time, and then sets last_enemy_turn_time to t. *)
C16_PassIffClockDue ==
    DidOp("update_realtime") =>
        /\ ClockDue =>
              /\ engine.last_enemy_turn_time = CurrentTime
              /\ \A e \in (Actors \cap pre.game_map.entities) \ {Player} :
                    pre.actors[e].ai # NoAI => e \in Decided \/ actors[e].ai = NoAI
        /\ ~ClockDue =>
              /\ engine.last_enemy_turn_time = pre.engine.last_enemy_turn_time
              /\ obs.decisions = <<>>
----------------------------------------------------------------------------
(* Picking up *)

(* The items that lay on the tile of the acting actor. *)
ItemsHere ==
    {i \in Items : /\ i \in pre.game_map.entities
                   /\ pre.items[i].x = pre.actors[last.entity].x
                   /\ pre.items[i].y = pre.actors[last.entity].y}

InventoryFull == Len(pre.actors[last.entity].inventory) >= pre.actors[last.entity].capacity

(* C17: PickupAction.perform raises Impossible if and only if no item lies on
   the actor's tile or the inventory holds capacity entries, and then changes
   nothing; otherwise exactly one item of that tile leaves the map's entities
   and joins the actor's inventory (its parent becomes the actor, the pickup
   is logged) and nothing else changes. *)
C17_PickupTransfersOne ==
    DidOp("Pickup") =>
        /\ last.error = None
        /\ last.raised <=> (ItemsHere = {} \/ InventoryFull)
        /\ last.raised =>
              /\ actors = pre.actors /\ items = pre.items /\ game_map = pre.game_map
              /\ message_log = <<>>
        /\ ~last.raised =>
              /\ \E i \in ItemsHere :
                    /\ game_map = [pre.game_map EXCEPT !.entities = @ \ {i}]
                    /\ actors = [pre.actors EXCEPT
                                    ![last.entity].inventory = Append(@, Entry(i))]
                    /\ items = [pre.items EXCEPT ![i].parent = last.entity]
              /\ Len(message_log) = 1 /\ message_log[1].text = "You picked up"
        /\ engine = pre.engine /\ game_world = pre.game_world

(* One of two items of the tile is picked up into an inventory with room for
   exactly one more. *)
C17_Witness_PickedOneOfTwo ==
    /\ DidOp("Pickup") /\ ~last.raised
    /\ Cardinality(ItemsHere) = 2
    /\ Cardinality(ItemsHere \cap game_map.entities) = 1
    /\ Len(actors[Player].inventory) = actors[Player].capacity
----------------------------------------------------------------------------
(* Bumping *)

(* A live actor stood on the cell the most recent action aimed at. *)
ActorAtDest ==
    \E a \in map_actors(pre) : pre.actors[a].x = DestX /\ pre.actors[a].y = DestY

(* The outcome of the most recent action: the world it left, and how it ended. *)
Outcome == [w |-> W, raised |-> last.raised, error |-> last.error]

(* C18: BumpAction.perform does exactly what MeleeAction.perform does when an
   actor stands on the target cell and what MovementAction.perform does
   otherwise, the Impossible failures included. *)
C18_BumpIsMeleeOrMovement ==
    DidOp("Bump") =>
        Outcome = IF ActorAtDest
                  THEN MeleeAction_perform(pre, last.entity, last.dx, last.dy)
                  ELSE MovementAction_perform(pre, last.entity, last.dx, last.dy)

(* A bump into an actor hurt it and moved nobody. *)
C18_Witness_BumpedIntoActor ==
    /\ DidOp("Bump") /\ ActorAtDest /\ ~last.raised
    /\ \E a \in Actors \ {last.entity} :
          /\ pre.actors[a].x = DestX /\ pre.actors[a].y = DestY
          /\ actors[a].hp < pre.actors[a].hp
    /\ actors[last.entity].x = pre.actors[last.entity].x
    /\ actors[last.entity].y = pre.actors[last.entity].y
----------------------------------------------------------------------------
(* The stairs *)

OnStairs ==
    <<pre.actors[last.entity].x, pre.actors[last.entity].y>> = pre.game_map.downstairs_location

HadSkill(name) ==
    \E k \in 1..Len(pre.actors[Player].skills) : pre.actors[Player].skills[k].name = name

(* The skill list as add_skill leaves it: the skill joins the end unless one
   of its name is there. *)
Learned(skill) ==
    IF HadSkill(skill.name) THEN pre.actors[Player].skills
    ELSE Append(pre.actors[Player].skills, skill)

(* C19: off the stairs TakeStairsAction.perform raises Impossible and changes
   nothing; on the stairs it generates the next floor exactly once, and the
   player has Beam afterwards when that floor is floor 2, Lesser Heal when it
   is floor 3, and the skill list it had on every other floor. *)
C19_StairsTeachByFloor ==
    DidOp("TakeStairs") =>
        /\ last.error = None
        /\ last.raised <=> ~OnStairs
        /\ last.raised =>
              /\ actors = pre.actors /\ items = pre.items /\ game_map = pre.game_map
              /\ engine = pre.engine /\ game_world = pre.game_world
              /\ obs.floors_generated = 0
        /\ ~last.raised =>
              /\ obs.floors_generated = 1
              /\ game_world.current_floor = pre.game_world.current_floor + 1
              /\ actors[Player].skills =
                    CASE game_world.current_floor = 2 -> Learned(BeamSkill(10, 8))
                      [] game_world.current_floor = 3 -> Learned(HealSkill(20))
                      [] OTHER -> pre.actors[Player].skills
              /\ game_world.current_floor = 2 => has_skill(W, "Beam")
              /\ game_world.current_floor = 3 => has_skill(W, "Lesser Heal")

(* The player arrives at floor 3 without Lesser Heal and learns it. *)
C19_Witness_LearnedHealOnFloor3 ==
    /\ DidOp("TakeStairs") /\ ~last.raised
    /\ game_world.current_floor = 3
    /\ ~HadSkill("Lesser Heal") /\ has_skill(W, "Lesser Heal")
    /\ ~has_skill(W, "Beam")
----------------------------------------------------------------------------
(* Throwing *)

(* C20: ThrowProjectileAction.perform never raises and, whoever throws and
   whatever the direction of the action, appends exactly one projectile to
   the end of the active collection: its velocity is the player's facing
   direction and its damage the thrower's power halved and rounded down. *)
C20_ThrowAppendsOne ==
    DidOp("ThrowProjectile") =>
        /\ ~last.raised /\ last.error = None
        /\ Len(engine.active_projectiles) = Len(pre.engine.active_projectiles) + 1
        /\ IsPrefix(pre.engine.active_projectiles, engine.active_projectiles)
        /\ LET p == engine.active_projectiles[Len(engine.active_projectiles)]
           IN  /\ <<p.dx, p.dy>> = pre.actors[Player].facing_direction
               /\ 2 * p.damage <= Fighter_power(pre, last.entity)
               /\ Fighter_power(pre, last.entity) < 2 * p.damage + 2
               /\ p.updates = 0 /\ ~p.done

(* The troll throws against the player's facing direction when a projectile
   is in flight already: the new one comes last, with half the troll's power. *)
C20_Witness_SecondThrow ==
    /\ DidOp("ThrowProjectile") /\ last.entity = "troll"
    /\ Len(engine.active_projectiles) = 2
    /\ <<last.dx, last.dy>> # pre.actors[Player].facing_direction
    /\ engine.active_projectiles[2].damage = 2
    /\ Fighter_power(pre, Player) \div 2 = 1
----------------------------------------------------------------------------
(* One cell per decision *)

(* The number of cells, counted as a king moves, between where actor e stood
   before the most recent operation and where it stands now. *)
CellsMoved(e) ==
    Max(Abs(actors[e].x - pre.actors[e].x), Abs(actors[e].y - pre.actors[e].y))

(* C21: in one pass of the enemies' turns every actor that took a decision
   stands on the cell it stood on or on one adjacent to it (Chebyshev
   distance at most 1), whatever the earlier ticks were and whether or not
   its tile is visible. *)
C21_OneCellPerTick ==
    DidOp("handle_enemy_turns") => \A e \in Decided : CellsMoved(e) <= 1
----------------------------------------------------------------------------
(* Two timed effects on one actor *)

(* The player at (0,0) carries two items, each a scroll of confusion or an
   ice bomb, and the whole room is in sight; an orc with the hostile melee
   strategy stands nearby. *)
InitEffects ==
    /\ \E op \in {<<1, 0>>, <<2, 0>>},
          k1 \in {"confusion", "ice_bomb"}, k2 \in {"confusion", "ice_bomb"},
          t1 \in {Turns}, t2 \in {0, Turns} :
          /\ actors = [a \in Actors |->
                CASE a = "player" ->
                       [NewPlayer(0, 0, MaxHp)
                          EXCEPT !.inventory = <<Entry("item1"), Entry("item2")>>]
                  [] a = "orc" -> NewOrc(op[1], op[2], MaxHp)
                  [] OTHER -> NewTroll(2, 2, MaxHp)]
          /\ items = [i \in Items |->
                CASE i = "item1" -> [NewItem(k1, 0, 0, Player) EXCEPT !.turns = t1]
                  [] OTHER -> [NewItem(k2, 0, 0, Player) EXCEPT !.turns = t2]]
          /\ game_map = [walkable |-> Floor, visible |-> Floor,
                         entities |-> {"player", "orc"},
                         downstairs_location |-> <<2, 2>>]
    /\ engine = NewEngine
    /\ game_world = [current_floor |-> 1]
    /\ message_log = <<>>
    /\ obs = NoObs
    /\ now = 0
    /\ pre = Begin(W)
    /\ last = NoLast

NextEffects == ReadScroll \/ EnemyTurns

SpecEffects == InitEffects /\ [][NextEffects]_vars

TimedEffects == {"ConfusedEnemy", "ParalyzedEnemy"}

(* The strategy on top of the stack ai is a timed effect. *)
HasEffect(ai) == ai # <<>> /\ ai[1].kind \in TimedEffects

(* The actors the item of the most recent ItemAction gave a timed effect. *)
Affected ==
    LET item == pre.items[last.arg]
    IN  IF ~DidOp("Item") \/ last.raised THEN {}
        ELSE IF item.kind = "confusion"
        THEN {get_actor_at_location(pre, last.dx, last.dy)}
        ELSE IF item.kind = "ice_bomb"
        THEN InRadius(pre, last.dx, last.dy, item.radius) \ {last.entity}
        ELSE {}

(* The effect the item of the most recent ItemAction applies. *)
EffectApplied ==
    LET item == pre.items[last.arg]
    IN  IF item.kind = "confusion" THEN ConfusedEnemy(item.turns)
        ELSE ParalyzedEnemy(item.turns)

(* C22 as claimed: a timed effect applied to an actor that is under a timed
   effect already replaces it and discards what the first effect had saved,
   so that the actor's base strategy is no longer among its strategies and
   cannot be restored. *)
C22_Original_BaseDiscarded ==
    \A e \in Affected :
        HasEffect(pre.actors[e].ai) =>
            \A k \in 1..Len(actors[e].ai) : actors[e].ai[k].kind \in TimedEffects

(* C22: a timed effect applied to an actor wraps whatever strategy the actor
   has, a timed effect in force included: the first effect, with the turns it
   has left and the strategy it saved, becomes the saved strategy of the
   second. A tick of an effect that has run out puts the saved strategy
   back, a tick of one that has not only counts it down; so the first effect
   resumes when the second ends, and the base strategy, which is at the
   bottom all the time, comes back when the first ends. *)
C22_SecondEffectWrapsFirst ==
    /\ \A e \in Affected : actors[e].ai = <<EffectApplied>> \o pre.actors[e].ai
    /\ DidOp("handle_enemy_turns") =>
          \A e \in Decided :
              HasEffect(pre.actors[e].ai) /\ actors[e].ai # NoAI =>
                  IF pre.actors[e].ai[1].turns_remaining <= 0
                  THEN actors[e].ai = Tail(pre.actors[e].ai)
                  ELSE /\ Tail(actors[e].ai) = Tail(pre.actors[e].ai)
                       /\ actors[e].ai[1].kind = pre.actors[e].ai[1].kind
                       /\ actors[e].ai[1].turns_remaining
                             = pre.actors[e].ai[1].turns_remaining - 1
    /\ \A e \in Actors \ {Player} :
          actors[e].ai # NoAI =>
              /\ actors[e].ai[Len(actors[e].ai)].kind = "HostileEnemy"
              /\ \A k \in 1..(Len(actors[e].ai) - 1) : actors[e].ai[k].kind \in TimedEffects

(* The second effect on the orc has just run out and the first one, which
   had turns left when the second was applied, is in force again over the
   hostile melee strategy. *)
C22_Witness_FirstResumes ==
    /\ DidOp("handle_enemy_turns")
    /\ Len(pre.actors["orc"].ai) = 3
    /\ Len(actors["orc"].ai) = 2
    /\ actors["orc"].ai[1].kind \in TimedEffects
    /\ actors["orc"].ai[1].turns_remaining > 0
    /\ actors["orc"].ai[2].kind = "HostileEnemy"
----------------------------------------------------------------------------
(* The centre of an expanding ring *)

(* The player takes a step while something is in flight, one step a frame. *)
Stride ==
    /\ engine.active_projectiles # <<>>
    /\ last.op # "Movement"
    /\ Player \in game_map.entities
    /\ \E d \in Dirs8 :
          LET r == MovementAction_perform(Begin(W), Player, d[1], d[2])
          IN  ~r.raised /\ Do("Movement", Player, d[1], d[2], None, r)
    /\ UNCHANGED now

NextRing == Fire \/ UpdateProjectiles \/ Stride

SpecRing == InitProjectiles /\ [][NextRing]_vars

(* The Chebyshev distance of actor a, where it stood before the most recent
   operation, from the cell <<x, y>>. *)
ChebyshevFromCell(a, x, y) ==
    Max(Abs(pre.actors[a].x - x), Abs(pre.actors[a].y - y))

(* The live actors a projectile could hit at the most recent operation: not
   its owner and not hit by it before. *)
Hittable(p) ==
    {a \in (Actors \cap pre.game_map.entities) \ {p.actor} :
        \A q \in Before : q.id = p.id => a \notin q.hit_actors}

(* The expanding rings that the most recent frame updated and left in flight. *)
RingsUpdated ==
    IF DidOp("update_projectiles")
    THEN {p \in Active : p.kind = "ShockwaveProjectile"}
    ELSE {}

(* C23 as claimed: the actors an update of an expanding ring hits are the
   hittable ones at Chebyshev distance radius from the cell the owner stood
   on when the ring was spawned, wherever the owner stands now. *)
C23_Original_RingAroundSpawn ==
    \A p \in RingsUpdated :
        NewlyHit(p) = {a \in Hittable(p) : ChebyshevFromCell(a, p.x, p.y) = p.expanding_radius}

(* C23: the cells an update of an expanding ring tests are those at Chebyshev
   distance radius from the cell its owner stands on at that update, so the
   ring follows an owner that has moved since the spawn: the actors hit are
   the hittable ones at that distance from the owner's present cell, while
   the cell recorded at the spawn stays as it was. *)
C23_RingAroundOwner ==
    \A p \in RingsUpdated :
        /\ NewlyHit(p) =
              {a \in Hittable(p) :
                  ChebyshevFromCell(a, pre.actors[p.actor].x, pre.actors[p.actor].y)
                     = p.expanding_radius}
        /\ \A q \in Before : q.id = p.id => q.x = p.x /\ q.y = p.y

(* The owner has left the cell of the spawn, and the update hits the orc,
   which is at distance radius from the owner but not from that cell. *)
C23_Witness_HitAfterOwnerMoved ==
    \E p \in RingsUpdated :
        /\ <<p.x, p.y>> # <<pre.actors[p.actor].x, pre.actors[p.actor].y>>
        /\ "orc" \in NewlyHit(p)
        /\ ChebyshevFromCell("orc", p.x, p.y) # p.expanding_radius
----------------------------------------------------------------------------
(* Damage and the refresh of the timed buffs *)

(* The world before the most recent operation with the timed buffs of the
   acting entity refreshed. *)
Refreshed == update_temporary_buffs(pre, last.entity)

(* The damage of the most recent melee had it been computed after the
   refresh of the attacker's timed buffs. *)
DamageAfterRefresh ==
    Max(0, Fighter_power(Refreshed, last.entity) - Fighter_defense(Refreshed, MeleeTarget))

(* The most recent operation was a melee against a cell holding an actor. *)
MeleeHit == DidOp("Melee") /\ MeleeTarget # None

(* C24 as claimed: the defender loses the damage computed from the attacker's
   power after the refresh of the attacker's timed buffs. *)
C24_Original_RefreshThenDamage ==
    MeleeHit => actors[MeleeTarget].hp = pre.actors[MeleeTarget].hp - DamageAfterRefresh

(* C24: MeleeAction.perform computes the damage first and refreshes the
   attacker's timed buffs afterwards: the defender loses max(0, power -
   defense) with power and defense as they are before the refresh, so a
   strength boost that runs out on this attack still counts in it, and the
   attacker leaves the attack with its buffs refreshed once. *)
C24_DamageBeforeRefresh ==
    MeleeHit =>
        /\ actors[MeleeTarget].hp = pre.actors[MeleeTarget].hp - MeleeDamage
        /\ actors[last.entity].buffs = Refreshed.actors[last.entity].buffs
        /\ actors[last.entity].base_power = Refreshed.actors[last.entity].base_power
        /\ actors[last.entity].base_defense = Refreshed.actors[last.entity].base_defense

(* The player's strength boost runs out on this attack and the orc still
   loses the boosted damage. *)
C24_Witness_BoostCountsOnExpiry ==
    /\ MeleeHit /\ last.entity = Player /\ MeleeTarget = "orc"
    /\ pre.actors[Player].buffs.strength = 1
    /\ actors[Player].buffs.strength = NoBuff
    /\ actors[Player].base_power = pre.actors[Player].base_power - StrengthBoost
    /\ MeleeDamage = DamageAfterRefresh + StrengthBoost
    /\ actors["orc"].hp = pre.actors["orc"].hp - MeleeDamage
----------------------------------------------------------------------------
(* Who decides in a pass *)

(* The actors that were alive with a strategy before the most recent
   operation and are dead after it. *)
Killed ==
    {e \in Actors \cap pre.game_map.entities :
        pre.actors[e].ai # NoAI /\ e \notin game_map.entities /\ actors[e].ai = NoAI}

(* C25: in one pass of the enemies' turns the player takes no decision, no
   actor takes more than one, and whoever takes one is alive at that moment
   (hp above 0, having a strategy): an actor that an earlier decision of the
   pass killed is passed over. *)
C25_OneDecisionForTheLiving ==
    DidOp("handle_enemy_turns") =>
        /\ Player \notin Decided
        /\ \A e \in Actors :
              Cardinality({k \in 1..Len(obs.decisions) : obs.decisions[k].actor = e}) <= 1
        /\ \A k \in 1..Len(obs.decisions) :
              /\ obs.decisions[k].hp > 0
              /\ pre.actors[obs.decisions[k].actor].ai # NoAI
        /\ \A e \in Killed \ Decided : actors[e].x = pre.actors[e].x /\ actors[e].y = pre.actors[e].y

(* The orc's decision killed the troll, which had not had its turn and got
   none afterwards. *)
C25_Witness_KilledBeforeItsTurn ==
    /\ DidOp("handle_enemy_turns")
    /\ "troll" \in Killed
    /\ Decided = {"orc"}
----------------------------------------------------------------------------
(* The order of the decisions in a pass *)

(* The actors as a pass of the enemies' turns from the present state may
   leave them when the actors are visited in this order. *)
PassOutcomes(order) ==
    {r.w.actors : r \in enemy_turns({Ok(Begin(W))}, order)}

(* C26: the state determines the order of the decisions of a pass and hence
   its outcome: whichever order the set of the live actors without the
   player is iterated in, the pass can leave the actors in the same states
   (the strategies' random choices being the same). *)
C26_OrderDeterminedByState ==
    \A o1, o2 \in Orders(map_actors(W) \ {Player}) : PassOutcomes(o1) = PassOutcomes(o2)
----------------------------------------------------------------------------
(* The hostile melee strategy out of sight *)

(* Actor e, with the hostile melee strategy, took its decision in the most
   recent pass on a tile that was not visible. *)
HostileTickedUnseen(e) ==
    TickedUnseen(e) /\ pre.actors[e].ai[1].kind = "HostileEnemy"

(* Nobody was attacked in the most recent operation. *)
NobodyAttacked ==
    /\ \A k \in 1..Len(message_log) : ~IsAttackMessage(message_log[k])
    /\ \A a \in Actors : actors[a].hp = pre.actors[a].hp

(* A step onto cell c was possible before the most recent operation. *)
FreeCell(c) ==
    /\ in_bounds(c[1], c[2])
    /\ walkable(pre, c[1], c[2])
    /\ get_blocking_entity_at_location(pre, c[1], c[2]) = None

(* C27 as claimed: a hostile melee actor deciding on a tile out of sight
   idles: it stays where it is and attacks nobody, whatever path it has
   cached. *)
C27_Original_UnseenIdles ==
    \A e \in Actors :
        HostileTickedUnseen(e) =>
            /\ actors[e].x = pre.actors[e].x /\ actors[e].y = pre.actors[e].y
            /\ NobodyAttacked

(* C27: a hostile melee actor deciding on a tile out of sight attacks nobody
   and computes no path; it idles only when it has no cached path. With a
   cached path it takes the first cell off the path and is moved onto it
   when that cell is in bounds, walkable and free of actors, and stays where
   it is, having lost the turn, when it is not. *)
C27_UnseenFollowsCachedPath ==
    \A e \in Actors :
        HostileTickedUnseen(e) =>
            LET path == pre.actors[e].ai[1].path
            IN  /\ NobodyAttacked
                /\ IF path = <<>>
                   THEN actors[e] = pre.actors[e]
                   ELSE /\ actors[e].ai[1].path = Tail(path)
                        /\ <<actors[e].x, actors[e].y>> =
                              (IF FreeCell(Head(path)) THEN Head(path)
                               ELSE <<pre.actors[e].x, pre.actors[e].y>>)

(* Out of sight, the orc with the hostile melee strategy has moved onto the
   first cell of a cached path of two cells or more, and keeps the rest. *)
C27_Witness_UnseenStep ==
    /\ HostileTickedUnseen("orc")
    /\ Len(pre.actors["orc"].ai[1].path) >= 2
    /\ FreeCell(Head(pre.actors["orc"].ai[1].path))
    /\ <<actors["orc"].x, actors["orc"].y>> # <<pre.actors["orc"].x, pre.actors["orc"].y>>
    /\ actors["orc"].ai[1].path # <<>>
----------------------------------------------------------------------------
(* Cooldowns of the throwing strategies *)

Throwers == {"HostileEnemyWithProjectile", "RangedEnemy", "BossAI"}

(* The cooldown a strategy sets when it throws (ai.py:176, 257, 344). *)
CooldownAfterThrow(kind) ==
    CASE kind = "HostileEnemyWithProjectile" -> 3
      [] kind = "RangedEnemy" -> 2
      [] kind = "BossAI" -> 5

(* Actor e, with a throwing strategy, took its decision in the most recent
   pass of the enemies' turns and is alive after it. *)
ThrowerTicked(e) ==
    /\ DidOp("handle_enemy_turns")
    /\ e \in Decided
    /\ pre.actors[e].ai[1].kind \in Throwers
    /\ actors[e].ai # NoAI

(* The tile e decided on was visible. *)
TickedSeen(e) == <<pre.actors[e].x, pre.actors[e].y>> \in pre.game_map.visible

(* The decision of e appended a projectile. *)
Threw(e) == \E p \in ThrownNow : p.actor = e

(* C28: a throwing strategy (hostile with projectile, ranged, boss) deciding
   on a visible tile with a positive cooldown counts it down by exactly one
   before it chooses its branch: after a melee, a retreat, a chase or a
   failed move the cooldown is one less, and a projectile is thrown on such a
   tick only when the cooldown was 1 and has come down to 0, the throw then
   setting it anew. The cooldown is never negative, and a decision on a tile
   out of sight leaves it as it was. *)
C28_CooldownCountsDown ==
    \A e \in Actors :
        ThrowerTicked(e) =>
            LET before == pre.actors[e].ai[1].cooldown
                after == actors[e].ai[1].cooldown
            IN  /\ after >= 0
                /\ ~TickedSeen(e) => after = before /\ ~Threw(e)
                /\ TickedSeen(e) /\ before > 0 =>
                      IF Threw(e)
                      THEN before = 1 /\ after = CooldownAfterThrow(pre.actors[e].ai[1].kind)
                      ELSE after = before - 1
                /\ TickedSeen(e) /\ before = 0 =>
                      after = (IF Threw(e) THEN CooldownAfterThrow(pre.actors[e].ai[1].kind)
                               ELSE 0)

(* The orc, seen and next to the player with a cooldown of 2 or more, struck
   the player, and its cooldown is one less. *)
C28_Witness_CountedDownOnMelee ==
    /\ ThrowerTicked("orc") /\ TickedSeen("orc")
    /\ pre.actors["orc"].ai[1].cooldown >= 2
    /\ actors["orc"].ai[1].cooldown = pre.actors["orc"].ai[1].cooldown - 1
    /\ actors[Player].hp < pre.actors[Player].hp
----------------------------------------------------------------------------
(* The wait after a throw *)

(* Actor e, with the hostile-with-projectile strategy, took its decision in
   the most recent pass on a visible tile. *)
ProjectileThrowerTickedSeen(e) ==
    /\ ThrowerTicked(e) /\ TickedSeen(e)
    /\ pre.actors[e].ai[1].kind = "HostileEnemyWithProjectile"

(* The visible ticks e has taken since its last throw, counting this one: the
   throw sets the cooldown to 3 and every visible tick takes one off, so the
   first tick after the throw starts from 3, the second from 2 and the third
   from 1. *)
TicksSinceThrow(e) == 4 - pre.actors[e].ai[1].cooldown

(* C29: a hostile-with-projectile actor that has thrown throws nothing on its
   next 3 visible ticks, and on the tick of a throw it neither moves nor
   strikes anybody. *)
C29_WaitsThreeTicks ==
    \A e \in Actors :
        ProjectileThrowerTickedSeen(e) =>
            /\ pre.actors[e].ai[1].cooldown > 0 /\ TicksSinceThrow(e) <= 3 => ~Threw(e)
            /\ Threw(e) =>
                  /\ actors[e].x = pre.actors[e].x /\ actors[e].y = pre.actors[e].y
                  /\ NobodyAttacked
----------------------------------------------------------------------------
(* The ranged strategy *)

(* Actor e, with the ranged strategy, took its decision in the most recent
   pass on a visible tile. *)
RangedTickedSeen(e) ==
    /\ ThrowerTicked(e) /\ TickedSeen(e)
    /\ pre.actors[e].ai[1].kind = "RangedEnemy"

(* Where e stood before the most recent operation, and where it stands. *)
Was(e) == <<pre.actors[e].x, pre.actors[e].y>>
Is(e) == <<actors[e].x, actors[e].y>>

(* The cell one step from e straight away from the player. *)
RetreatCell(e) ==
    <<pre.actors[e].x - Sign(pre.actors[Player].x - pre.actors[e].x),
      pre.actors[e].y - Sign(pre.actors[Player].y - pre.actors[e].y)>>

(* The decision of e was one step along a path to the player computed on
   this tick, the rest of which it keeps: onto the first cell if it is free,
   nowhere if it is not or if there is no path. *)
SteppedAlongFreshPath(e) ==
    \E path \in BaseAI_get_path_to(pre, e, pre.actors[Player].x, pre.actors[Player].y) :
        IF path = <<>>
        THEN Is(e) = Was(e) /\ actors[e].ai[1].path = <<>>
        ELSE /\ actors[e].ai[1].path = Tail(path)
             /\ Is(e) = (IF FreeCell(Head(path)) THEN Head(path) ELSE Was(e))

(* C30: a ranged actor deciding on a visible tile never strikes anybody. Two
   cells or less from the player it throws nothing and takes one step by
   (-sign dx, -sign dy), staying where it is when that cell is not free.
   Three to six cells away with its cooldown at zero once counted down, it
   appends exactly one projectile of its own, flying towards the player,
   sets its cooldown to 2 and does not move. Otherwise it throws nothing and
   takes a step along a path to the player computed on this tick. *)
C30_RangedKeepsItsDistance ==
    \A e \in Actors :
        RangedTickedSeen(e) =>
            LET distance == ChebyshevBefore(e, Player)
                counted == Max(0, pre.actors[e].ai[1].cooldown - 1)
                flying == engine.active_projectiles
            IN  /\ NobodyAttacked
                /\ distance <= 2 =>
                      /\ ~Threw(e) /\ flying = pre.engine.active_projectiles
                      /\ Is(e) = (IF FreeCell(RetreatCell(e)) THEN RetreatCell(e) ELSE Was(e))
                      /\ actors[e].ai[1].path = pre.actors[e].ai[1].path
                      /\ actors[e].ai[1].cooldown = counted
                /\ distance > 2 /\ distance <= 6 /\ counted = 0 =>
                      /\ Len(flying) = Len(pre.engine.active_projectiles) + 1
                      /\ IsPrefix(pre.engine.active_projectiles, flying)
                      /\ flying[Len(flying)].actor = e
                      /\ flying[Len(flying)].dx = Sign(pre.actors[Player].x - pre.actors[e].x)
                      /\ flying[Len(flying)].dy = Sign(pre.actors[Player].y - pre.actors[e].y)
                      /\ actors[e].ai[1].cooldown = 2
                      /\ Is(e) = Was(e)
                /\ distance > 2 /\ (distance > 6 \/ counted > 0) =>
                      /\ ~Threw(e) /\ flying = pre.engine.active_projectiles
                      /\ SteppedAlongFreshPath(e)
                      /\ actors[e].ai[1].cooldown = counted

(* Two cells from the player and with the wall behind it, the orc tried to
   step back, could not, and stayed: nothing thrown, the turn lost. *)
C30_Witness_RetreatBlocked ==
    /\ RangedTickedSeen("orc")
    /\ ChebyshevBefore("orc", Player) = 2
    /\ ~FreeCell(RetreatCell("orc"))
    /\ Is("orc") = Was("orc")
    /\ obs.decisions[1].raised
----------------------------------------------------------------------------
(* The boss *)

(* Actor e, with the boss strategy, took its decision in the most recent pass
   of the enemies' turns and is alive after it. *)
BossTicked(e) == ThrowerTicked(e) /\ pre.actors[e].ai[1].kind = "BossAI"

(* C31: a boss spawns its special attack only on a tick on a visible tile, 2
   to 5 cells from the player, with its cooldown at zero once counted down;
   what it appends is one expanding ring of its own whose damage is twice
   its power; after that its cooldown is 5, it has not moved and has struck
   nobody. One cell or less from the player, on a visible tile, it performs
   the melee and spawns nothing. *)
C31_BossSpecialAttack ==
    \A e \in Actors :
        BossTicked(e) =>
            LET distance == ChebyshevBefore(e, Player)
                flying == engine.active_projectiles
            IN  /\ Threw(e) =>
                      /\ TickedSeen(e)
                      /\ distance >= 2 /\ distance <= 5
                      /\ Max(0, pre.actors[e].ai[1].cooldown - 1) = 0
                      /\ Len(flying) = Len(pre.engine.active_projectiles) + 1
                      /\ IsPrefix(pre.engine.active_projectiles, flying)
                      /\ flying[Len(flying)].kind = "ShockwaveProjectile"
                      /\ flying[Len(flying)].actor = e
                      /\ flying[Len(flying)].damage = 2 * Fighter_power(pre, e)
                      /\ actors[e].ai[1].cooldown = 5
                      /\ Is(e) = Was(e)
                      /\ NobodyAttacked
                /\ ~Threw(e) => engine.active_projectiles = pre.engine.active_projectiles
                /\ TickedSeen(e) /\ distance <= 1 =>
                      /\ ~Threw(e)
                      /\ Is(e) = Was(e)
                      /\ \/ obs.decisions[1].raised
                         \/ \E k \in 1..Len(message_log) : IsAttackMessage(message_log[k])

(* The boss, two cells or more from the player and in sight, has spawned its
   ring, which carries twice its power. *)
C31_Witness_RingSpawned ==
    /\ BossTicked("orc") /\ Threw("orc")
    /\ ChebyshevBefore("orc", Player) >= 2
    /\ engine.active_projectiles[Len(engine.active_projectiles)].damage
          = 2 * pre.actors["orc"].base_power
    /\ actors["orc"].ai[1].cooldown = 5
----------------------------------------------------------------------------
(* Paralysis *)

(* Actor e took its decision in the most recent pass of the enemies' turns
   with the paralyzed strategy on top. *)
ParalyzedTicked(e) ==
    /\ DidOp("handle_enemy_turns")
    /\ e \in Decided
    /\ pre.actors[e].ai[1].kind = "ParalyzedEnemy"

(* C32: a tick of a paralyzed actor leaves it where it is, harms nobody and
   spawns nothing. While turns remain it only counts one off; when none
   remains it puts the saved strategy back, untouched (the path and the
   cooldown it had when it was saved), and says so in the log: nothing of
   the restored strategy is executed on that tick. *)
C32_ParalyzedIsInert ==
    \A e \in Actors :
        ParalyzedTicked(e) =>
            /\ Is(e) = Was(e)
            /\ NobodyAttacked
            /\ engine = pre.engine
            /\ game_map = pre.game_map
            /\ [actors EXCEPT ![e].ai = NoAI] = [pre.actors EXCEPT ![e].ai = NoAI]
            /\ IF pre.actors[e].ai[1].turns_remaining <= 0
               THEN /\ actors[e].ai = Tail(pre.actors[e].ai)
                    /\ Len(message_log) = 1
                    /\ message_log[1].text = "breaks free from the ice"
               ELSE /\ Tail(actors[e].ai) = Tail(pre.actors[e].ai)
                    /\ actors[e].ai[1].kind = "ParalyzedEnemy"
                    /\ actors[e].ai[1].turns_remaining
                          = pre.actors[e].ai[1].turns_remaining - 1
                    /\ message_log = <<>>

(* The ice has broken on a visible tile three cells from the player: the
   ranged strategy is back with its cooldown at zero and has thrown nothing
   on this tick. *)
C32_Witness_RestoredWithoutActing ==
    /\ ParalyzedTicked("orc") /\ TickedSeen("orc")
    /\ pre.actors["orc"].ai[1].turns_remaining = 0
    /\ actors["orc"].ai[1].kind = "RangedEnemy"
    /\ actors["orc"].ai[1].cooldown = 0
    /\ ChebyshevBefore("orc", Player) = 3
    /\ engine.active_projectiles = <<>>
----------------------------------------------------------------------------
(* The expanding plus and the expanding X *)

Blasts == {"CrossProjectile", "DiagonalProjectile"}

(* Actor a stood, before the most recent operation, on an arm of blast p
   within its present reach, the arms starting on the cell of p's owner. *)
OnArm(p, a) ==
    LET ox == pre.actors[a].x - pre.actors[p.actor].x
        oy == pre.actors[a].y - pre.actors[p.actor].y
    IN  /\ Abs(ox) <= p.distance_travelled /\ Abs(oy) <= p.distance_travelled
        /\ IF p.kind = "CrossProjectile" THEN ox = 0 \/ oy = 0
           ELSE Abs(ox) = Abs(oy)

(* C33: an expanding plus or X of range R is not done after R updates and is
   done after R + 1, an update that tests nothing. Its update number k
   (1 <= k <= R) has reach k and hits every live actor other than the owner
   that stands on one of its four arms at an offset of 0 to k and was not
   hit before, cells tested in earlier frames included, and nobody off the
   arms. *)
C33_ArmsAreRetested ==
    /\ \A p \in Active :
          p.kind \in Blasts =>
              ~p.done /\ p.updates <= p.range /\ p.distance_travelled = p.updates
    /\ \A p \in SeqSet(obs.purged) :
          p.kind \in Blasts => p.done /\ p.updates = p.range + 1 /\ NewlyHit(p) = {}
    /\ DidOp("update_projectiles") =>
          \A p \in Active :
              p.kind \in Blasts =>
                  /\ NewlyHit(p) \subseteq {a \in Hittable(p) : OnArm(p, a)}
                  /\ \A a \in Hittable(p) :
                        OnArm(p, a) => a \in p.hit_actors \/ a \notin game_map.entities

(* The orc was out of reach at the first update of a plus and has stepped
   onto a cell next to the owner since, a cell the first update tested: the
   second update hits it there. *)
C33_Witness_HitOnInnerCell ==
    /\ DidOp("update_projectiles")
    /\ \E p \in Active :
          /\ p.kind = "CrossProjectile" /\ p.updates = 2
          /\ "orc" \in NewlyHit(p)
          /\ ChebyshevBefore("orc", p.actor) = 1
----------------------------------------------------------------------------
(* Piercing: a straight-line projectile and two actors *)

(* The player at (0,0) with an arrow scroll or the beam skill, an orc and a
   troll alive in the room. *)
InitPierce ==
    /\ \E op \in {<<1, 0>>, <<0, 1>>}, tp \in {<<2, 0>>, <<2, 2>>},
          kind \in {"arrow", "Beam"}, range \in 0..MaxRange,
          facing \in {<<1, 0>>, <<0, 1>>, <<1, 1>>} :
          /\ actors = [a \in Actors |->
                CASE a = "player" ->
                       [NewPlayer(0, 0, MaxHp)
                          EXCEPT !.facing_direction = facing,
                                 !.inventory = (IF kind = "arrow"
                                                THEN <<Entry("item1")>> ELSE <<>>),
                                 !.skills = IF kind = "Beam"
                                            THEN <<BeamSkill(ItemDamage, range)>>
                                            ELSE <<>>]
                  [] a = "orc" -> NewOrc(op[1], op[2], MaxHp)
                  [] OTHER -> NewTroll(tp[1], tp[2], MaxHp)]
          /\ items = [i \in Items |->
                CASE i = "item1" ->
                       IF kind = "arrow"
                       THEN [NewItem(kind, 0, 0, Player) EXCEPT !.range = range]
                       ELSE NewItem("healing", 0, 0, None)
                  [] OTHER -> NewItem("healing", 0, 0, None)]
    /\ game_map = [walkable |-> Floor, visible |-> Floor,
                   entities |-> {"player", "orc", "troll"},
                   downstairs_location |-> <<2, 2>>]
    /\ engine = NewEngine
    /\ game_world = [current_floor |-> 1]
    /\ message_log = <<>>
    /\ obs = NoObs
    /\ now = 0
    /\ pre = Begin(W)
    /\ last = NoLast

NextPierce == Fire \/ CastBeam \/ UpdateProjectiles \/ Walk

SpecPierce == InitPierce /\ [][NextPierce]_vars

(* The straight-line projectiles that the most recent frame updated. *)
StraightUpdated ==
    IF DidOp("update_projectiles") THEN {p \in Seen : IsStraight(p)} ELSE {}

(* Projectile p stands on a non-walkable tile or off the map, or has
   travelled its range. *)
Spent(p) == Stops(p, p.distance_travelled) \/ p.distance_travelled >= p.range

(* C34: an update sets the done flag of a straight-line projectile exactly
   when the step took it onto a non-walkable tile or off the map or used up
   its range, whether or not it hit an actor on that step; one that hits
   and is not spent stays in flight and may hit another actor later. An
   update of a projectile that is done changes neither the projectile's
   position nor anything of the world. *)
C34_OnlyWallsAndRangeStop ==
    \A p \in StraightUpdated :
        /\ p.done <=> Spent(p)
        /\ p.done <=> p \notin Active
        /\ p.done =>
              LET again == Projectile_update(W, p)
              IN  /\ again.w = W
                  /\ again.p.x = p.x /\ again.p.y = p.y /\ again.p.done
                  /\ again.p.hit_actors = p.hit_actors

(* One projectile has hit the orc on an earlier step and the troll on this
   one. *)
C34_Witness_HitTwoActors ==
    \E p \in StraightUpdated :
        /\ "troll" \in NewlyHit(p)
        /\ \E q \in Before : q.id = p.id /\ "orc" \in q.hit_actors
----------------------------------------------------------------------------
(* Flight: projectiles of every variant, range and velocity *)

(* The player or the troll constructs a projectile of any variant, range and
   velocity, and it joins the collection. *)
Throw ==
    /\ engine.spawned = 0
    /\ \E a \in {"player", "troll"}, range \in 0..MaxRange, v \in {-1, 0, 1} \X {-1, 0, 1},
          kind \in {"Projectile", "DirectionalProjectile", "ShockwaveProjectile",
                    "CrossProjectile", "DiagonalProjectile"} :
          Do("Throw", a, v[1], v[2], kind,
             Ok(append_projectile(Begin(W),
                    NewProjectile(Begin(W), kind, a, range, ItemDamage, v[1], v[2]))))
    /\ UNCHANGED now

NextFlight == Throw \/ UpdateProjectiles \/ Walk

SpecFlight == InitPierce /\ [][NextFlight]_vars

(* C35: a projectile of any variant, range R >= 0 and velocity (zero
   included) is in the active collection for R + 1 calls of
   update_projectiles at most: every call updates each projectile of the
   collection once, a projectile it leaves in the collection is not done and
   has had R updates at most, and one it removes is done and has had at most
   R + 1. *)
C35_GoneAfterRPlus1 ==
    /\ \A p \in Active : ~p.done /\ p.updates <= p.range
    /\ DidOp("update_projectiles") =>
          /\ \A q \in Before : \E p \in Seen : p.id = q.id /\ p.updates = q.updates + 1
          /\ \A p \in Seen : \E q \in Before : q.id = p.id
          /\ \A p \in SeqSet(obs.purged) :
                p.done /\ p.updates <= p.range + 1 /\ p \notin Active

(* A projectile at rest leaves the collection at the last of its updates. *)
C35_Witness_RestingRemoved ==
    /\ DidOp("update_projectiles")
    /\ \E p \in SeqSet(obs.purged) :
          /\ IsStraight(p) /\ p.dx = 0 /\ p.dy = 0
          /\ p.range >= 2 /\ p.updates = p.range

----------------------------------------------------------------------------
(* The messages of the mode changes *)

(* How often the most recent operation added the text to the message log. *)
TimesLogged(text) ==
    Cardinality({k \in 1..Len(message_log) : message_log[k].text = text})

ModeWas(m) == pre.engine.game_state = m
ModeIs(m) == engine.game_state = m

(* C36: a call of update_realtime adds "Enemy spotted! Combat started." once
   if it changes the mode from exploration to turn-based and not at all
   otherwise, adds "Combat ended." once if it changes the mode from
   turn-based to exploration and not at all otherwise, and adds neither when
   it leaves the mode as it was. *)
C36_OneMessagePerModeChange ==
    DidOp("update_realtime") =>
        LET started == TimesLogged("Enemy spotted! Combat started.")
            ended == TimesLogged("Combat ended.")
        IN  /\ started = IF ModeWas("EXPLORATION") /\ ModeIs("TURN_BASED") THEN 1 ELSE 0
            /\ ended = IF ModeWas("TURN_BASED") /\ ModeIs("EXPLORATION") THEN 1 ELSE 0
            /\ engine.game_state = pre.engine.game_state => started = 0 /\ ended = 0

(* A frame in turn-based mode that stays in it and says nothing, the orc
   still in sight. *)
C36_Witness_SilentInCombat ==
    /\ DidOp("update_realtime")
    /\ ModeWas("TURN_BASED") /\ ModeIs("TURN_BASED")
    /\ SpottedBefore
    /\ message_log = <<>>
----------------------------------------------------------------------------
(* A floor number reached again *)

(* The entries of a skill list that carry the name. *)
Entries(skills, name) == Cardinality({k \in 1..Len(skills) : skills[k].name = name})

(* The skill that TakeStairsAction grants on arriving at the floor. *)
SkillOfFloor(floor) ==
    CASE floor = 2 -> "Beam" [] floor = 3 -> "Lesser Heal" [] OTHER -> None

(* The player has taken the stairs to floor 2 or 3 with that floor's skill
   already learned. *)
ArrivedAgain ==
    /\ DidOp("TakeStairs") /\ ~last.raised
    /\ game_world.current_floor \in {2, 3}
    /\ HadSkill(SkillOfFloor(game_world.current_floor))

(* C37 as stated: arriving again adds a second entry of the floor's skill to
   the player's skill list. *)
C37_Original_SecondEntry ==
    ArrivedAgain =>
        Entries(actors[Player].skills, SkillOfFloor(game_world.current_floor))
            = Entries(pre.actors[Player].skills, SkillOfFloor(game_world.current_floor)) + 1

(* C37: arriving at floor 2 or 3 with the floor's skill already learned runs
   the grant again, the stairs' own message of the skill is logged again,
   but add_skill finds the name and adds nothing: the skill list is the one
   the player had, and add_skill's message is not logged. *)
C37_RepeatAddsNoEntry ==
    ArrivedAgain =>
        /\ actors[Player].skills = pre.actors[Player].skills
        /\ Entries(actors[Player].skills, SkillOfFloor(game_world.current_floor)) = 1
        /\ \E k \in 1..Len(message_log) :
              message_log[k].text = IF game_world.current_floor = 2
                                    THEN "You learned Beam" ELSE "You learned Lesser Heal"
        /\ \A k \in 1..Len(message_log) : message_log[k].text # "You learned a new skill"

C37_Witness_BeamKept ==
    /\ ArrivedAgain
    /\ game_world.current_floor = 2
    /\ Entries(actors[Player].skills, "Beam") = 1
----------------------------------------------------------------------------
(* Path finding: get_path_to on rooms, a corridor and two islands *)

Corridor == {<<0, 0>>, <<1, 0>>, <<2, 0>>, <<3, 0>>}
Islands == {<<0, 0>>, <<0, 1>>, <<0, 2>>, <<2, 0>>, <<2, 1>>, <<3, 1>>}

(* The orc, the player and perhaps the troll on different walkable cells of
   one of the maps. *)
InitPaths ==
    /\ \E walk \in {Floor, Corridor, Islands}, others \in SUBSET {"troll"} :
          \E op \in walk, pp \in walk, tp \in walk :
              /\ op # pp /\ tp \notin {op, pp}
              /\ actors = [a \in Actors |->
                    CASE a = "player" -> NewPlayer(pp[1], pp[2], MaxHp)
                      [] a = "orc" -> NewOrc(op[1], op[2], MaxHp)
                      [] OTHER -> NewTroll(tp[1], tp[2], MaxHp)]
              /\ game_map = [walkable |-> walk, visible |-> walk,
                             entities |-> {"player", "orc"} \cup others,
                             downstairs_location |-> <<0, 0>>]
    /\ items = [i \in Items |-> NewItem("healing", 0, 0, None)]
    /\ engine = NewEngine
    /\ game_world = [current_floor |-> 1]
    /\ message_log = <<>>
    /\ obs = NoObs
    /\ now = 0
    /\ pre = Begin(W)
    /\ last = NoLast

(* self.path = self.get_path_to(dest_x, dest_y) of the orc, for a destination
   on the map other than its own cell (the source asks for the player's
   cell, from two cells away or more); last.dx and last.dy record the
   destination. *)
FindPath ==
    /\ last.op = "none"
    /\ \E dest \in Cells \ {<<actors["orc"].x, actors["orc"].y>>} :
          \E path \in BaseAI_get_path_to(Begin(W), "orc", dest[1], dest[2]) :
              Do("get_path_to", "orc", dest[1], dest[2], None,
                 Ok([Begin(W) EXCEPT !.actors["orc"].ai[1].path = path]))
    /\ UNCHANGED now

NextPaths == FindPath

SpecPaths == InitPaths /\ [][NextPaths]_vars

(* The cells that can be reached from the cells of S by steps to one of the
   eight neighbours, over walkable cells. *)
RECURSIVE ReachFrom(_, _)
ReachFrom(S, walk) ==
    LET T == S \cup {c \in walk : \E s \in S : c \in Neighbours(s)}
    IN  IF T = S THEN S ELSE ReachFrom(T, walk)

PathFound == actors["orc"].ai[1].path
PathStart == <<pre.actors["orc"].x, pre.actors["orc"].y>>
PathDest == <<last.dx, last.dy>>
EntityCells ==
    {<<pre.actors[a].x, pre.actors[a].y>> : a \in pre.game_map.entities \ {"orc"}}

(* C38: get_path_to returns the empty path exactly when the destination
   cannot be reached from the actor's cell by 8-way steps over walkable
   tiles, whatever blocking entities stand on the destination or in the
   way; a path that is not empty does not hold the start cell, ends at the
   destination, and each of its cells is walkable and a neighbour of the
   cell before it (the first one of the start cell). *)
C38_PathIffReachable ==
    DidOp("get_path_to") =>
        /\ PathFound = <<>> <=> PathDest \notin ReachFrom({PathStart}, pre.game_map.walkable)
        /\ PathFound # <<>> =>
              /\ PathStart \notin SeqSet(PathFound)
              /\ PathFound[Len(PathFound)] = PathDest
              /\ \A k \in 1..Len(PathFound) :
                    /\ PathFound[k] \in pre.game_map.walkable
                    /\ PathFound[k] \in
                          Neighbours(IF k = 1 THEN PathStart ELSE PathFound[k - 1])

(* A path along the corridor through the troll to the player at its end. *)
C38_Witness_ThroughTheTroll ==
    /\ DidOp("get_path_to")
    /\ pre.game_map.walkable = Corridor
    /\ Len(PathFound) = 3
    /\ PathDest \in EntityCells
    /\ PathFound[2] \in EntityCells
----------------------------------------------------------------------------
(* The pass of the scheduler's clock *)

Chasers == {"HostileEnemy", "HostileEnemyWithProjectile", "RangedEnemy", "BossAI"}

(* The most recent operation was a frame of the scheduler whose clock ran the
   pass, and actor e, with one of the chasing strategies, decided in it. *)
ChaserTickedByClock(e) ==
    /\ DidOp("update_realtime")
    /\ e \in Decided
    /\ pre.actors[e].ai[1].kind \in Chasers

(* C39: a frame of update_realtime runs the pass of the enemies' decisions
   only when its scan found no live non-player actor with a strategy on a
   visible tile; in that pass an actor with the hostile melee, the
   hostile-with-projectile, the ranged or the boss strategy attacks nobody,
   spawns no projectile, keeps its cooldown and computes no path: it takes
   the first cell off the path it had cached and steps onto it if the cell
   is free, or waits. *)
C39_ClockPassIsInert ==
    /\ DidOp("update_realtime") /\ obs.decisions # <<>> => ~SpottedBefore
    /\ \A e \in Actors :
          ChaserTickedByClock(e) =>
              LET path == pre.actors[e].ai[1].path
              IN  /\ <<pre.actors[e].x, pre.actors[e].y>> \notin pre.game_map.visible
                  /\ \A k \in 1..Len(message_log) : ~IsAttackMessage(message_log[k])
                  /\ engine.spawned = pre.engine.spawned
                  /\ <<actors[e].x, actors[e].y>> =
                        (IF path # <<>> /\ FreeCell(Head(path)) THEN Head(path)
                         ELSE <<pre.actors[e].x, pre.actors[e].y>>)
                  /\ actors[e].ai # NoAI =>
                        /\ actors[e].ai[1].kind = pre.actors[e].ai[1].kind
                        /\ actors[e].ai[1].cooldown = pre.actors[e].ai[1].cooldown
                        /\ actors[e].ai[1].path = (IF path = <<>> THEN <<>> ELSE Tail(path))

(* The clock's pass moves an orc that is cooling down along the path it
   cached while it was in sight; the cooldown is what it was. *)
C39_Witness_CoolingDownOnPath ==
    /\ ChaserTickedByClock("orc")
    /\ pre.actors["orc"].ai[1].kind \in Throwers
    /\ pre.actors["orc"].ai[1].cooldown > 0
    /\ pre.actors["orc"].ai[1].path # <<>>
    /\ <<actors["orc"].x, actors["orc"].y>> = Head(pre.actors["orc"].ai[1].path)
    /\ actors["orc"].ai # NoAI
    /\ actors["orc"].ai[1].cooldown = pre.actors["orc"].ai[1].cooldown
----------------------------------------------------------------------------
(* The inventory: stacks are dropped in part or whole and picked up again *)

MaxQuantity == 2

(* An inventory entry as Inventory.add stores it: the tuple (Item, qty). *)
Stack(item, qty) == [item |-> item, tuple |-> TRUE, qty |-> qty]

(* Where an item begins: at the player's feet, or in the player's inventory
   in a stack of qty. *)
ItemStarts == {0} \cup (1..MaxQuantity)

InitInventory ==
    /\ \E pp \in {<<0, 0>>, <<2, 1>>}, q1 \in ItemStarts, q2 \in ItemStarts,
          swap \in BOOLEAN :
          LET held == (IF q1 > 0 THEN <<Stack("item1", q1)>> ELSE <<>>)
                        \o (IF q2 > 0 THEN <<Stack("item2", q2)>> ELSE <<>>)
          IN  /\ actors = [a \in Actors |->
                    CASE a = "player" ->
                           [NewPlayer(pp[1], pp[2], MaxHp)
                              EXCEPT !.inventory = IF swap /\ Len(held) = 2
                                                   THEN <<held[2], held[1]>> ELSE held]
                      [] a = "orc" -> NewOrc(1, 0, MaxHp)
                      [] OTHER -> NewTroll(1, 2, MaxHp)]
              /\ items = [i \in Items |->
                    LET q == IF i = "item1" THEN q1 ELSE q2
                    IN  IF q > 0 THEN NewItem("healing", 0, 0, Player)
                        ELSE NewItem("healing", pp[1], pp[2], "gamemap")]
              /\ game_map = [walkable |-> Floor, visible |-> Floor,
                             entities |-> {"player", "orc"}
                                            \cup {i \in Items :
                                                    (IF i = "item1" THEN q1 ELSE q2) = 0},
                             downstairs_location |-> <<2, 2>>]
    /\ engine = NewEngine
    /\ game_world = [current_floor |-> 1]
    /\ message_log = <<>>
    /\ obs = NoObs
    /\ now = 0
    /\ pre = Begin(W)
    /\ last = NoLast

(* PickupAction(player).perform() *)
Gather ==
    /\ \E r \in PickupAction_perform(Begin(W), Player) : Do("Pickup", Player, 0, 0, None, r)
    /\ UNCHANGED now

(* player.inventory.remove(item, quantity); last.dx records the quantity. *)
Remove ==
    /\ \E i \in Items, quantity \in 1..MaxQuantity :
          LET r == Inventory_remove(actors[Player].inventory, i, quantity)
          IN  Do("remove", Player, quantity, 0, i,
                 IF r.error = None
                 THEN Ok([Begin(W) EXCEPT !.actors[Player].inventory = r.items])
                 ELSE Crash(Begin(W), r.error))
    /\ UNCHANGED now

(* player.inventory.drop(item, quantity); last.dx records the quantity. *)
Drop ==
    /\ \E i \in Items, quantity \in 1..MaxQuantity :
          Do("drop", Player, quantity, 0, i, Inventory_drop(Begin(W), Player, i, quantity))
    /\ UNCHANGED now

NextInventory == Gather \/ Remove \/ Drop

SpecInventory == InitInventory /\ [][NextInventory]_vars

(* The item is one of the map's entities. *)
OnMap(i) == i \in game_map.entities

(* The entries of actor a's inventory that hold the item. *)
HeldBy(a, i) == {k \in 1..Len(actors[a].inventory) : actors[a].inventory[k].item = i}

Holders(i) == {a \in Actors : HeldBy(a, i) # {}}

(* C40: after every PickupAction, Inventory.remove and Inventory.drop, of a
   whole stack or of a part of it, no item is both among the map's entities
   and in an inventory, no item is in two inventories, and the item that a
   pickup or a drop has moved is in one of the two places. *)
C40_EveryItemInOnePlace ==
    /\ \A i \in Items :
          /\ ~(OnMap(i) /\ Holders(i) # {})
          /\ Cardinality(Holders(i)) <= 1
    /\ DidOp("drop") /\ last.error = None /\ message_log # <<>> => OnMap(last.arg)
    /\ DidOp("Pickup") /\ ~last.raised =>
          \E i \in Items : ~OnMap(i) /\ HeldBy(Player, i) # {}
====
